---- MODULE Spec2Model ----
(***************************************************************************)
(* Model of the ollama-proxy gateway: the hot-reloadable configuration     *)
(* store (config.py), the request router and the streaming pump (api.py)   *)
(* and the response translator (converter.py).                             *)
(*                                                                         *)
(* Conventions.  Python's None / an absent optional value is the empty     *)
(* tuple <<>>, a present value v is <<v>>.  A JSON object is a record      *)
(* whose DOMAIN is the set of keys the object has; a JSON value that is    *)
(* not an object is the record NotADict.  A Python dict that is iterated   *)
(* (the routing table) is a sequence of [name, cfg] pairs in insertion     *)
(* order.  Text is a sequence of symbols, "" is <<>>.                      *)
(***************************************************************************)
EXTENDS Integers, Sequences, FiniteSets, TLC

\* ------------------------------------------------------------- bounds
\* Watcher events that may be queued before the watcher handles one.
MaxPending == 1
\* Elements one upstream stream may yield before it ends or fails.
MaxChunks == 3
\* Calls of Storage.add_usage_log in one run.
MaxLog == 3
\* Models the provider table of the settings UI may hold.
MaxModels == 3

\* ------------------------------------------------------------- values
None == <<>>
Some(v) == <<v>>

NotADict == [notadict |-> TRUE]
IsDict(v) == "notadict" \notin DOMAIN v

\* dict.get(k, default)
Get(d, k, default) == IF k \in DOMAIN d THEN d[k] ELSE default
\* dict.get(k): None when the key is absent
GetOpt(d, k) == IF k \in DOMAIN d THEN Some(d[k]) ELSE None

\* ------------------------------------------- contents of providers.json
\* The backing file is one of these contents.  exists: the file is there;
\* json: json.load accepts it; top: the JSON value it parses to, an object
\* given as the sequence of its (key, value) members in file order.
FileMissing == [exists |-> FALSE, json |-> FALSE, top |-> NotADict, members |-> <<>>]
FileBadJson == [exists |-> TRUE, json |-> FALSE, top |-> NotADict, members |-> <<>>]
\* [ ... ]: valid JSON whose top level is a list
FileTopList == [exists |-> TRUE, json |-> TRUE, top |-> NotADict, members |-> <<>>]
\* {}
FileEmpty == [exists |-> TRUE, json |-> TRUE, top |-> [dict |-> TRUE], members |-> <<>>]

ModelM1Gpt == [name |-> "m1", model_name |-> "gpt-4o", reasoning_effort |-> "high"]
ModelM2Llama == [name |-> "m2", model_name |-> "llama3", thinking_budget |-> 1024]
ModelM1Claude == [name |-> "m1", model_name |-> "claude", thinking_budget |-> 2048]
ModelM1Llama == [name |-> "m1", model_name |-> "llama3"]
\* both reasoning settings given
ModelM1Both ==
    [name |-> "m1", model_name |-> "o3", reasoning_effort |-> "medium", thinking_budget |-> 4096]
\* both reasoning settings given as "" and 0
ModelM2Blank ==
    [name |-> "m2", model_name |-> "llama3", reasoning_effort |-> "", thinking_budget |-> 0]
ModelNoModelName == [name |-> "m2"]
ModelNoName == [model_name |-> "llama3"]

ProvOpenAI(models) ==
    [id |-> "openai", value |-> [api_key |-> "k1", models |-> models]]
ProvLocal(models) ==
    [id |-> "local",
     value |-> [provider |-> "custom_openai", base_url |-> "http://l",
                additional_params |-> {"timeout"}, models |-> models]]
ProvAnthropic(models) ==
    [id |-> "anthropic", value |-> [api_key |-> "k2", models |-> models]]
\* a provider object without a "models" key
ProvBare == [id |-> "gemini", value |-> [api_key |-> "k3"]]
\* a provider whose value is not an object, e.g. "openai": "oops"
ProvScalar == [id |-> "broken", value |-> NotADict]

FileOf(members) ==
    [exists |-> TRUE, json |-> TRUE, top |-> [dict |-> TRUE], members |-> members]

\* m1 under openai, m2 under a custom endpoint, a provider without models
FileA == FileOf(<<ProvOpenAI(<<ModelM1Gpt>>), ProvLocal(<<ModelM2Llama>>), ProvBare>>)
\* m1 redefined, m2 gone
FileB == FileOf(<<ProvAnthropic(<<ModelM1Claude>>)>>)
\* m1 defined under two providers
FileDup == FileOf(<<ProvOpenAI(<<ModelM1Gpt>>), ProvLocal(<<ModelM1Llama>>)>>)
\* a valid provider followed by a provider value of the wrong shape
FileProvScalar == FileOf(<<ProvOpenAI(<<ModelM1Gpt>>), ProvScalar>>)
\* a valid model followed by a model without "model_name"
FileNoModelName == FileOf(<<ProvAnthropic(<<ModelM1Gpt, ModelNoModelName>>)>>)
\* a model without "name"
FileNoName == FileOf(<<ProvOpenAI(<<ModelNoName>>)>>)

\* m1 with both reasoning settings, m2 with both of them blank
FileReasoning == FileOf(<<ProvOpenAI(<<ModelM1Both>>), ProvLocal(<<ModelM2Blank>>)>>)

Contents ==
    << FileMissing, FileBadJson, FileTopList, FileEmpty, FileA, FileB, FileDup,
       FileProvScalar, FileNoModelName, FileNoName, FileReasoning >>
ContentIds == 1..Len(Contents)
MissingId == CHOOSE c \in ContentIds : Contents[c] = FileMissing

\* external model names a caller may ask for ("mx" is never configured)
ModelNames == {"m1", "m2", "mx"}

\* ------------------------------------------------------- config store
\* LiteLLMConfig with the credentials given in the wrong positions.
LiteLLMConfigSwapped(provider, model_name, api_key, base_url, reasoning_effort, thinking_budget, additional_params) ==
    [provider |-> provider, model_name |-> model_name, api_key |-> base_url,
     base_url |-> api_key, reasoning_effort |-> reasoning_effort,
     thinking_budget |-> thinking_budget, additional_params |-> additional_params]

LiteLLMConfig(provider, model_name, api_key, base_url, reasoning_effort, thinking_budget, additional_params) ==
    [provider |-> provider, model_name |-> model_name, api_key |-> api_key,
     base_url |-> base_url, reasoning_effort |-> reasoning_effort,
     thinking_budget |-> thinking_budget, additional_params |-> additional_params]

\* DictSet adding a second entry for a key the table has.
DictSetAppend(tbl, k, v) == Append(tbl, [name |-> k, cfg |-> v])

\* DictSet leaving alone the entry of a key the table has.
DictSetKeepFirst(tbl, k, v) ==
    IF \E i \in 1..Len(tbl) : tbl[i].name = k
    THEN tbl
    ELSE Append(tbl, [name |-> k, cfg |-> v])

\* new_providers[k] = v on a Python dict: an existing key keeps its position
DictSet(tbl, k, v) ==
    IF \E i \in 1..Len(tbl) : tbl[i].name = k
    THEN [i \in 1..Len(tbl) |->
            IF tbl[i].name = k THEN [name |-> k, cfg |-> v] ELSE tbl[i]]
    ELSE Append(tbl, [name |-> k, cfg |-> v])

\* self._providers.get(ollama_name)
DictGet(tbl, k) ==
    IF \E i \in 1..Len(tbl) : tbl[i].name = k
    THEN Some(tbl[CHOOSE i \in 1..Len(tbl) : tbl[i].name = k].cfg)
    ELSE None

\* list(self._providers.keys())
DictKeys(tbl) == [i \in 1..Len(tbl) |-> tbl[i].name]

\* The inner loop of reload_providers from model j on: each model adds one
\* entry; a model lacking "name" or "model_name" raises KeyError.
RECURSIVE LoadModels(_, _, _, _, _)
LoadModels(provider_id, config, models, j, acc) ==
    IF j > Len(models) THEN [raised |-> FALSE, tbl |-> acc]
    ELSE LET model == models[j] IN
         IF "name" \notin DOMAIN model \/ "model_name" \notin DOMAIN model
         THEN [raised |-> TRUE, tbl |-> acc]
         ELSE LoadModels(provider_id, config, models, j + 1,
                DictSet(acc, model.name,
                    LiteLLMConfig(Get(config, "provider", provider_id),
                                  model.model_name,
                                  GetOpt(config, "api_key"),
                                  GetOpt(config, "base_url"),
                                  GetOpt(model, "reasoning_effort"),
                                  GetOpt(model, "thinking_budget"),
                                  Get(config, "additional_params", {}))))

\* The outer loop of reload_providers from member i on; a provider value
\* that is not an object raises AttributeError on config.get.
RECURSIVE LoadProviders(_, _, _)
LoadProviders(members, i, acc) ==
    IF i > Len(members) THEN [raised |-> FALSE, tbl |-> acc]
    ELSE LET config == members[i].value IN
         IF ~IsDict(config) THEN [raised |-> TRUE, tbl |-> acc]
         ELSE LET r == LoadModels(members[i].id, config,
                                  Get(config, "models", <<>>), 1, acc) IN
              IF r.raised THEN r ELSE LoadProviders(members, i + 1, r.tbl)

\* ParseAndBuild reading a file json.load rejects as the empty object, the
\* way Storage._load_json does.
ParseAndBuildLenient(content) ==
    IF ~content.exists THEN [kind |-> "raised", tbl |-> <<>>]
    ELSE IF ~content.json THEN [kind |-> "built", tbl |-> <<>>]
    ELSE IF ~IsDict(content.top) THEN [kind |-> "raised", tbl |-> <<>>]
    ELSE LET r == LoadProviders(content.members, 1, <<>>) IN
         [kind |-> IF r.raised THEN "raised" ELSE "built", tbl |-> r.tbl]

\* open + json.load + the two loops, on the content the file has when it is
\* opened.  kind: "raised" an exception leaves reload_providers, "warned" a
\* warning is printed and the call returns, "built" new_providers is ready.
ParseAndBuild(content) ==
    IF ~content.exists THEN [kind |-> "raised", tbl |-> <<>>]
    ELSE IF ~content.json THEN [kind |-> "warned", tbl |-> <<>>]
    ELSE IF ~IsDict(content.top) THEN [kind |-> "raised", tbl |-> <<>>]
    ELSE LET r == LoadProviders(content.members, 1, <<>>) IN
         [kind |-> IF r.raised THEN "raised" ELSE "built", tbl |-> r.tbl]

\* self._providers.get(ollama_name), under the lock
get_litellm_config(tbl, ollama_name) == DictGet(tbl, ollama_name)

\* list(self._providers.keys()), under the lock
list_models(tbl) == DictKeys(tbl)

\* MissingFileSnapshot taking a missing file for a file without models.
MissingFileSnapshotCleared(tbl) == <<>>

\* The snapshot after reload_providers found no file: "Warning: ... not
\* found" and return, self._providers is not assigned.
MissingFileSnapshot(tbl) == tbl

\* ReachesSwap with the loops' exceptions swallowed: the swap is reached with
\* whatever was built.
ReachesSwapAlways(r) == r.kind \in {"built", "raised"}

\* Whether reload_providers reaches the swap of self._providers: only when
\* both loops ran to their end.
ReachesSwap(r) == r.kind = "built"

\* ---------------------------------------------------------------- state
VARIABLES
    file,        \* id of the content providers.json has now
    pending,     \* modification events queued for the watcher
    providers,   \* ConfigManager._providers, the snapshot
    rl_pc,       \* reload_providers: "idle", "open" (exists() passed), "swap"
    rl_new,      \* reload_providers: new_providers once built
    rl_result,   \* how the last reload_providers call ended
    rl_pre,      \* history: the snapshot when the last reload_providers call began
    rl_data,     \* history: id of the content the last reload_providers call saw, 0 if none
    lastParsed,  \* history: id of the content of the latest successful parse, 0 if none
    watcher,     \* the observer thread that runs on_modified: "running", "dead"
    rd,          \* the last read of a request task: resolve(name) or listModels()
    rq,          \* the request being served: endpoint, parsed body
    rq_pc,       \* where its task is: "idle", "await", "pump_call", "iter",
                 \* "closed", "cancelled", "responded"
    lite_config, \* the entry the request resolved, None if none
    resp,        \* the response handed to the transport
    out,         \* the records the pump has yielded, in order
    up,          \* history: the elements the upstream stream has yielded
    up_end,      \* history: how the upstream ended: "open", "end", "fail", "callfail"
    calls,       \* history: the upstream calls the request made
    raised,      \* an exception left the pump
    held,        \* the records the pump has built and not yet yielded
    handle,      \* the upstream stream object: "none", "open", "released"
    call_snap,   \* history: the snapshot in force when the upstream call was made
    tg_pc,       \* the /api/tags handler: "idle", "loop", "responded"
    tg_names,    \* /api/tags: the names of list_models() still to look up
    tg_items,    \* /api/tags: the items appended to models so far
    tg_snaps,    \* history: the snapshots in force since the /api/tags handler began
    lock,        \* ConfigManager._lock: "free" or the thread that holds it
    th,          \* the threads that use the lock: where each is, what it reads
    usage_file,  \* the entries usage_logs.json holds
    lw,          \* the callers of add_usage_log: where each is, what it loaded
    log_hist,    \* history: the entries of the add_usage_log calls that returned, in order
    dc_pc,       \* a reload_providers call of another thread: "idle", "open", "swap"
    dc_new,      \* that call's new_providers once built
    dc_data,     \* history: id of the content that call read, 0 if none
    ptable,      \* the provider table providers.json holds, as Storage reads it
    sv           \* how the last save of a model through Storage ended

storeVars ==
    <<file, pending, providers, rl_pc, rl_new, rl_result, rl_pre, rl_data, lastParsed,
      watcher>>
reqVars ==
    <<rq, rq_pc, lite_config, resp, out, up, up_end, calls, raised, held, handle,
      call_snap>>
tagVars == <<tg_pc, tg_names, tg_items, tg_snaps>>
lockVars == <<lock, th>>
logVars == <<usage_file, lw, log_hist>>
directVars == <<dc_pc, dc_new, dc_data>>
uiVars == <<ptable, sv>>
vars == <<storeVars, rd, reqVars, tagVars, lockVars, logVars, directVars, uiVars>>

NoRead == [op |-> "none", name |-> "", result |-> None, list |-> <<>>]

NoRequest == [kind |-> "none", model |-> "", stream |-> None]
NoResponse == [status |-> 0, media |-> "", body |-> [none |-> TRUE]]

\* No request has arrived yet.
InitRequest ==
    /\ rq = NoRequest
    /\ rq_pc = "idle"
    /\ lite_config = None
    /\ resp = NoResponse
    /\ out = <<>>
    /\ up = <<>>
    /\ up_end = "open"
    /\ calls = <<>>
    /\ raised = FALSE
    /\ held = <<>>
    /\ handle = "none"
    /\ call_snap = <<>>

\* No /api/tags request has arrived yet.
InitTags ==
    /\ tg_pc = "idle"
    /\ tg_names = <<>>
    /\ tg_items = <<>>
    /\ tg_snaps = {}

\* the threads that call into the ConfigManager: two that serve requests
\* and the observer thread
Readers == {"task1", "task2"}
Threads == Readers \cup {"observer"}
NoOp == [op |-> "none", name |-> "", result |-> None, list |-> <<>>]

\* Nobody holds or wants the lock.
InitLock ==
    /\ lock = "free"
    /\ th = [t \in Threads |-> [pc |-> "out", read |-> NoOp]]

\* the callers of Storage.add_usage_log
LogWriters == {"writer1", "writer2"}

\* Storage._ensure_dir has written [] to usage_logs.json; nobody is logging.
InitLog ==
    /\ usage_file = <<>>
    /\ lw = [w \in LogWriters |-> [pc |-> "out", logs |-> <<>>]]
    /\ log_hist = <<>>

\* The provider table after two providers were saved in the settings UI,
\* the first without a "models" key; no model was saved yet.
StoredProviders ==
    << [id |-> "p1", value |-> [provider |-> "openai", api_key |-> "k1"]],
       [id |-> "p2", value |-> [provider |-> "custom_openai", base_url |-> "http://l",
                                models |-> <<>>]] >>
NoSave == [op |-> "none", result |-> "none", key |-> None]
InitUi ==
    /\ ptable = StoredProviders
    /\ sv = NoSave

\* No thread but the watcher's is in reload_providers.
InitDirect ==
    /\ dc_pc = "idle"
    /\ dc_new = <<>>
    /\ dc_data = 0

\* After ConfigManager() ran with no providers.json on disk: the initial
\* reload_providers printed its warning and left the empty table.
InitStore ==
    /\ file = MissingId
    /\ pending = 0
    /\ providers = <<>>
    /\ rl_pc = "idle"
    /\ rl_new = <<>>
    /\ rl_result = "warned"
    /\ rl_pre = <<>>
    /\ rl_data = MissingId
    /\ lastParsed = 0
    /\ watcher = "running"
    /\ rd = NoRead
    /\ InitRequest
    /\ InitTags
    /\ InitLock
    /\ InitLog
    /\ InitDirect
    /\ InitUi

\* An external edit of providers.json (the settings UI or an editor): the
\* file gets another content; a write queues a modification event for the
\* watcher, a deletion queues none.
WriteFile(c) ==
    /\ c /= file
    /\ Contents[c].exists => pending < MaxPending
    /\ file' = c
    /\ pending' = IF Contents[c].exists THEN pending + 1 ELSE pending
    /\ UNCHANGED <<providers, rl_pc, rl_new, rl_result, rl_pre, rl_data, lastParsed,
                   watcher, rd>>
    /\ UNCHANGED <<reqVars, tagVars, lockVars, logVars, directVars, uiVars>>

\* ProvidersConfigHandler.on_modified -> reload_providers, up to the
\* exists() test: a missing file is a warning and a return.
ReloadBegin ==
    /\ watcher = "running"
    /\ rl_pc = "idle"
    /\ pending > 0
    /\ pending' = pending - 1
    /\ rl_pre' = providers
    /\ rl_data' = file
    /\ IF Contents[file].exists
       THEN /\ rl_pc' = "open"
            /\ rl_result' = "running"
            /\ UNCHANGED providers
       ELSE /\ rl_pc' = "idle"
            /\ rl_result' = "warned"
            /\ providers' = MissingFileSnapshot(providers)
    /\ UNCHANGED <<file, rl_new, lastParsed, watcher, rd>>
    /\ UNCHANGED <<reqVars, tagVars, lockVars, logVars, directVars, uiVars>>

\* reload_providers from open() to the end of the loops, on the content the
\* file has now.  An exception that leaves reload_providers leaves
\* on_modified too and ends the observer thread that called it.
ReloadLoad ==
    /\ rl_pc = "open"
    /\ LET r == ParseAndBuild(Contents[file]) IN
       IF ReachesSwap(r)
       THEN /\ rl_pc' = "swap"
            /\ rl_new' = r.tbl
            /\ rl_result' = "running"
            /\ lastParsed' = IF r.kind = "built" THEN file ELSE lastParsed
            /\ UNCHANGED watcher
       ELSE /\ rl_pc' = "idle"
            /\ rl_new' = <<>>
            /\ rl_result' = r.kind
            /\ watcher' = IF r.kind = "raised" THEN "dead" ELSE watcher
            /\ UNCHANGED lastParsed
    /\ rl_data' = file
    /\ UNCHANGED <<file, pending, providers, rl_pre, rd>>
    /\ UNCHANGED <<reqVars, tagVars, lockVars, logVars, directVars, uiVars>>

\* with self._lock: self._providers = new_providers (tg_snaps notes the new
\* snapshot for a /api/tags handler that is under way)
ReloadSwap ==
    /\ rl_pc = "swap"
    /\ providers' = rl_new
    /\ rl_pc' = "idle"
    /\ rl_new' = <<>>
    /\ rl_result' = "reloaded"
    /\ tg_snaps' = IF tg_pc = "loop" THEN tg_snaps \cup {rl_new} ELSE tg_snaps
    /\ UNCHANGED <<file, pending, rl_pre, rl_data, lastParsed, watcher, rd>>
    /\ UNCHANGED <<reqVars, tg_pc, tg_names, tg_items, lockVars, logVars, directVars, uiVars>>

\* A request task resolves a model name.
Resolve(name) ==
    /\ rd' = [op |-> "resolve", name |-> name,
              result |-> get_litellm_config(providers, name), list |-> <<>>]
    /\ UNCHANGED storeVars
    /\ UNCHANGED <<reqVars, tagVars, lockVars, logVars, directVars, uiVars>>

\* A request task lists the model names.
ListModels ==
    /\ rd' = [op |-> "list", name |-> "", result |-> None,
              list |-> list_models(providers)]
    /\ UNCHANGED storeVars
    /\ UNCHANGED <<reqVars, tagVars, lockVars, logVars, directVars, uiVars>>

NextStore ==
    \/ \E c \in ContentIds : WriteFile(c)
    \/ ReloadBegin
    \/ ReloadLoad
    \/ ReloadSwap
    \/ \E name \in ModelNames : Resolve(name)
    \/ ListModels

\* The configuration store, its watcher and the reads of request tasks.
SpecStore == InitStore /\ [][NextStore]_vars

\* -------------------------------------------------- response translator
\* Durations are whole milliseconds; int(seconds * 1e9) of d ms is d * 10^6.
\* The created_at stamp of a record (the wall clock's reading) is left out.
ns_from_seconds(ms) == ms * 1000000

to_ollama_generate_response(content, model_name, duration, prompt_tokens, completion_tokens) ==
    [model |-> model_name, response |-> content, done |-> TRUE,
     done_reason |-> "stop", context |-> <<>>,
     total_duration |-> ns_from_seconds(duration), load_duration |-> 0,
     prompt_eval_count |-> prompt_tokens, prompt_eval_duration |-> 0,
     eval_count |-> completion_tokens, eval_duration |-> 0]

to_ollama_generate_stream_chunk(content, model_name, done) ==
    IF done
    THEN [model |-> model_name, response |-> content, done |-> done,
          done_reason |-> "stop", context |-> <<>>,
          total_duration |-> 0, load_duration |-> 0,
          prompt_eval_count |-> 0, prompt_eval_duration |-> 0,
          eval_count |-> 0, eval_duration |-> 0]
    ELSE [model |-> model_name, response |-> content, done |-> done]

\* tool_calls or []
OrEmpty(tool_calls) == IF tool_calls = None THEN <<>> ELSE tool_calls[1]

to_ollama_chat_response(content, model_name, duration, prompt_tokens, completion_tokens, tool_calls) ==
    [model |-> model_name,
     message |-> [role |-> "assistant", content |-> content, images |-> None,
                  tool_calls |-> OrEmpty(tool_calls)],
     done |-> TRUE, done_reason |-> "stop",
     total_duration |-> ns_from_seconds(duration), load_duration |-> 0,
     prompt_eval_count |-> prompt_tokens, prompt_eval_duration |-> 0,
     eval_count |-> completion_tokens, eval_duration |-> 0]

to_ollama_chat_stream_chunk(content, model_name, done, tool_calls) ==
    IF done
    THEN [model |-> model_name,
          message |-> [role |-> "assistant", content |-> content, images |-> None,
                       tool_calls |-> OrEmpty(tool_calls)],
          done |-> done, done_reason |-> "stop",
          total_duration |-> 0, load_duration |-> 0,
          prompt_eval_count |-> 0, prompt_eval_duration |-> 0,
          eval_count |-> 0, eval_duration |-> 0]
    ELSE [model |-> model_name,
          message |-> [role |-> "assistant", content |-> content, images |-> None,
                       tool_calls |-> OrEmpty(tool_calls)],
          done |-> done]

to_ollama_model_info(model_name, provider, litellm_model) ==
    [modelfile |-> <<"# Model: ", model_name, "\nFROM ", provider, "/", litellm_model>>,
     parameters |-> <<>>, template |-> <<>>,
     details |-> [format |-> "api", family |-> provider, families |-> None,
                  parameter_size |-> "unknown", quantization_level |-> "none"],
     model_info |-> [architecture |-> "api", name |-> model_name],
     license |-> <<>>]

\* one item of the /api/tags list (modified_at, the wall clock's reading, is
\* left out)
to_ollama_model_list_item(model_name, provider, litellm_model) ==
    [name |-> model_name, model |-> model_name, size |-> 0,
     digest |-> <<provider, "/", litellm_model>>,
     details |-> [format |-> "api", family |-> provider, families |-> None,
                  parameter_size |-> "unknown", quantization_level |-> "none"]]

\* ------------------------------------------------------------ upstream
\* One element of the upstream stream: chunk.choices[0].delta is there or
\* not; its text (None and "" are both <<>>); its tool-call fragment.
ChunkText(t) == [delta |-> TRUE, content |-> t, tool_calls |-> None]
ChunkTool == [delta |-> TRUE, content |-> <<>>, tool_calls |-> Some(<<"call_1">>)]
ChunkNoDelta == [delta |-> FALSE, content |-> <<>>, tool_calls |-> None]
\* a delta with both a text and a tool-call fragment
ChunkBoth == [delta |-> TRUE, content |-> <<"!">>, tool_calls |-> Some(<<"call_2">>)]
Chunks ==
    {ChunkText(<<"Hel">>), ChunkText(<<"lo">>), ChunkText(<<>>), ChunkTool, ChunkBoth,
     ChunkNoDelta}

\* str(e) of the exceptions the upstream capability raises
UpstreamErrors == {"upstream unavailable"}
\* str(e) of the AttributeError of delta.tool_calls on a missing delta
NoDeltaError == "'NoneType' object has no attribute 'tool_calls'"

\* What a buffered upstream call returns: message.content (None or text),
\* message.tool_calls, usage (None or the two counts).
Completions ==
    { [content |-> Some(<<"hello">>), tool_calls |-> None,
       usage |-> Some([prompt_tokens |-> 3, completion_tokens |-> 1])],
      [content |-> None, tool_calls |-> Some(<<"call_1">>), usage |-> None] }

\* end_time - start_time of two time.time() readings, in milliseconds; the
\* wall clock may step back between them.
Elapsed == {-20, 0, 1500}

\* --------------------------------------------------------------- router
JSONResponse(content, status_code) ==
    [status |-> status_code, media |-> "application/json", body |-> content]

\* StreamingResponse(generator, media_type="application/x-ndjson")
StreamingResponse(media_type) ==
    [status |-> 200, media |-> media_type, body |-> [stream |-> TRUE]]

\* NotFoundResponse without its status_code argument (JSONResponse's default).
NotFoundResponseDefaultStatus(model_name) ==
    JSONResponse([error |-> <<"model '", model_name, "' not found">>], 200)

\* {"error": f"model '{model_name}' not found"}, 404
NotFoundResponse(model_name) ==
    JSONResponse([error |-> <<"model '", model_name, "' not found">>], 404)

\* BufferedFailure without its status_code argument (JSONResponse's default).
BufferedFailureDefaultStatus(e) == JSONResponse([error |-> <<e>>], 200)

\* except Exception as e on the buffered path: {"error": str(e)}, 500
BufferedFailure(e) == JSONResponse([error |-> <<e>>], 500)

\* the endpoints that are not implemented in proxy mode, and their messages
UnsupportedEndpoints == {"embed", "create", "copy", "delete", "pull", "push"}
UnsupportedMessage(endpoint) ==
    CASE endpoint = "embed" -> "embeddings are not yet supported"
      [] endpoint = "create" -> "model creation is not supported in proxy mode"
      [] endpoint = "copy" -> "model copy is not supported in proxy mode"
      [] endpoint = "delete" -> "model deletion is not supported in proxy mode"
      [] endpoint = "pull" -> "model pull is not supported in proxy mode"
      [] endpoint = "push" -> "model push is not supported in proxy mode"

\* UnsupportedResponse without its status_code argument (JSONResponse's default).
UnsupportedResponseDefaultStatus(endpoint) ==
    JSONResponse([error |-> <<UnsupportedMessage(endpoint)>>], 200)

\* JSONResponse({"error": ...}, status_code=501)
UnsupportedResponse(endpoint) ==
    JSONResponse([error |-> <<UnsupportedMessage(endpoint)>>], 501)

\* "stream": null in the request body (None is the absent key, Some(b) the
\* boolean b)
NullField == <<"json", "null">>

\* stream = body.get("stream", True) as "if stream:" takes it: the default
\* for an absent key only, and a null is not truthy
StreamFlag(body) ==
    IF body.stream = None THEN TRUE
    ELSE IF body.stream = NullField THEN FALSE
    ELSE body.stream[1]

\* LitellmModel keeping the tag custom_openai as it is.
LitellmModelTagAsIs(cfg) ==
    <<cfg.provider, "/", cfg.model_name>>

\* "openai" if provider == "custom_openai" else provider, then f"{provider}/{model_name}"
LitellmModel(cfg) ==
    <<IF cfg.provider = "custom_openai" THEN "openai" ELSE cfg.provider, "/", cfg.model_name>>

\* the empty dict: the default of body.get("options", {}), the fresh params
NoOptions == [k \in {} |-> 0]
\* "options": null in the request body
JsonNull == [json |-> "null"]

\* One key of params, set if the options object has the request's key.
CopyKey(options, key, as) ==
    IF key \in DOMAIN options THEN as :> options[key] ELSE NoOptions

\* build_options copying every key of the options object as it is.
build_options_all(body) ==
    LET options == Get(body, "options", NoOptions)
    IN  IF options = JsonNull
        THEN [raised |-> TRUE, params |-> NoOptions]
        ELSE [raised |-> FALSE, params |-> options]

\* build_options passing num_predict on under its own name.
build_options_unaliased(body) ==
    LET options == Get(body, "options", NoOptions)
    IN  IF options = JsonNull
        THEN [raised |-> TRUE, params |-> NoOptions]
        ELSE [raised |-> FALSE,
              params |-> CopyKey(options, "temperature", "temperature")
                         @@ CopyKey(options, "num_predict", "num_predict")
                         @@ CopyKey(options, "top_p", "top_p")]

\* _build_options: options = body.get("options", {}), and the three
\* recognized keys copied into params; '"temperature" in options' raises
\* TypeError when options is None.
build_options(body) ==
    LET options == Get(body, "options", NoOptions)
    IN  IF options = JsonNull
        THEN [raised |-> TRUE, params |-> NoOptions]
        ELSE [raised |-> FALSE,
              params |-> CopyKey(options, "temperature", "temperature")
                         @@ CopyKey(options, "num_predict", "max_tokens")
                         @@ CopyKey(options, "top_p", "top_p")]

\* _apply_config_options: the entry's static reasoning settings go into the
\* options of the call when they are truthy (not None, not "", not 0).
apply_config_options(options, lite_cfg) ==
    LET with_effort ==
            IF lite_cfg.reasoning_effort /= None /\ lite_cfg.reasoning_effort[1] /= ""
            THEN ("reasoning_effort" :> lite_cfg.reasoning_effort[1]) @@ options
            ELSE options
    IN  IF lite_cfg.thinking_budget /= None /\ lite_cfg.thinking_budget[1] /= 0
        THEN ("thinking" :> [type |-> "enabled",
                             budget_tokens |-> lite_cfg.thinking_budget[1]]) @@ with_effort
        ELSE with_effort

\* HandlerOptions attaching the tools of a generate request too.
HandlerOptionsToolsAnywhere(body, lite_cfg) ==
    LET built == build_options(body)
        with_format ==
            IF "format" \in DOMAIN body /\ body.format = "json"
            THEN ("response_format" :> [type |-> "json_object"]) @@ built.params
            ELSE built.params
        with_tools ==
            IF "tools" \in DOMAIN body /\ body.tools /= <<>>
            THEN ("tools" :> body.tools) @@ with_format
            ELSE with_format
    IN  [raised |-> built.raised,
         params |-> IF built.raised THEN NoOptions
                    ELSE apply_config_options(with_tools, lite_cfg)]

\* The options a handler passes to the call: _build_options, response_format
\* for format "json", tools for a chat with a non-empty tool list, then
\* _apply_config_options.  raised: _build_options raised.
HandlerOptions(body, lite_cfg) ==
    LET built == build_options(body)
        with_format ==
            IF "format" \in DOMAIN body /\ body.format = "json"
            THEN ("response_format" :> [type |-> "json_object"]) @@ built.params
            ELSE built.params
        with_tools ==
            IF body.kind = "chat" /\ "tools" \in DOMAIN body /\ body.tools /= <<>>
            THEN ("tools" :> body.tools) @@ with_format
            ELSE with_format
    IN  [raised |-> built.raised,
         params |-> IF built.raised THEN NoOptions
                    ELSE apply_config_options(with_tools, lite_cfg)]

\* BuildMessages putting the system message after the user message.
BuildMessagesSystemLast(body) ==
    IF body.kind = "generate"
    THEN LET system == Get(body, "system", "")
             prompt == Get(body, "prompt", "")
         IN  <<[role |-> "user", content |-> prompt]>>
             \o (IF system /= "" THEN <<[role |-> "system", content |-> system]>> ELSE <<>>)
    ELSE Get(body, "messages", <<>>)

\* The messages of the call: generate builds them from system and prompt,
\* chat passes body.get("messages", []) on.
BuildMessages(body) ==
    IF body.kind = "generate"
    THEN LET system == Get(body, "system", "")
             prompt == Get(body, "prompt", "")
         IN  (IF system /= "" THEN <<[role |-> "system", content |-> system]>> ELSE <<>>)
             \o <<[role |-> "user", content |-> prompt]>>
    ELSE Get(body, "messages", <<>>)

\* the arguments of litellm.acompletion
UpstreamCall(body, cfg, stream) ==
    [model |-> LitellmModel(cfg), api_key |-> cfg.api_key, api_base |-> cfg.base_url,
     stream |-> stream, messages |-> BuildMessages(body),
     options |-> HandlerOptions(body, cfg).params]

\* What the framework answers when an exception leaves a handler.
InternalServerError ==
    [status |-> 500, media |-> "text/plain", body |-> [text |-> "Internal Server Error"]]

\* PumpEntry looking the model up again when the generator starts.
PumpEntryResolvedAgain(passed, current) == IF current = None THEN passed ELSE current

\* The entry the generator calls upstream with: the lite_config argument the
\* handler passed it, whatever the store holds by now.
PumpEntry(passed, current) == passed

\* RecordModel passing the upstream model name to the translator.
RecordModelUpstream(model_name, lite_cfg) == lite_cfg.model_name

\* The model_name argument of every to_ollama_* call of the handlers and
\* the pumps: the request's own model_name, nothing of lite_config.
RecordModel(model_name, lite_cfg) == model_name

\* MayRequestNext of a pump that collects its records and yields them later.
MayRequestNextCollecting(unyielded) == TRUE

\* "async for" asks the upstream for its next element only when the loop
\* body is over, and the body yields the record it built.
MayRequestNext(unyielded) == unyielded = <<>>

\* BufferedBody with the two token counts in each other's place.
BufferedBodySwappedCounts(kind, model_name, response, elapsed) ==
    LET content == IF response.content = None THEN <<>> ELSE response.content[1]
        prompt_tokens ==
            IF response.usage = None THEN 0 ELSE response.usage[1].prompt_tokens
        completion_tokens ==
            IF response.usage = None THEN 0 ELSE response.usage[1].completion_tokens
    IN  IF kind = "generate"
        THEN to_ollama_generate_response(content, model_name, elapsed,
                                         completion_tokens, prompt_tokens)
        ELSE to_ollama_chat_response(content, model_name, elapsed,
                                     completion_tokens, prompt_tokens,
                                     response.tool_calls)

\* The record of the buffered path, from the completion litellm returned.
BufferedBody(kind, model_name, response, elapsed) ==
    LET content == IF response.content = None THEN <<>> ELSE response.content[1]
        prompt_tokens ==
            IF response.usage = None THEN 0 ELSE response.usage[1].prompt_tokens
        completion_tokens ==
            IF response.usage = None THEN 0 ELSE response.usage[1].completion_tokens
    IN  IF kind = "generate"
        THEN to_ollama_generate_response(content, model_name, elapsed,
                                         prompt_tokens, completion_tokens)
        ELSE to_ollama_chat_response(content, model_name, elapsed,
                                     prompt_tokens, completion_tokens,
                                     response.tool_calls)

\* ----------------------------------------------------------------- pump
\* StreamGenerateStep without its "if content" test.
StreamGenerateStepUnfiltered(model_name, chunk) ==
    LET content == IF chunk.delta THEN chunk.content ELSE <<>> IN
    [emit |-> <<to_ollama_generate_stream_chunk(content, model_name, FALSE)>>,
     error |-> None]

\* The body of "async for chunk" in _stream_generate: the records yielded
\* for one element, and the exception raised if any.
StreamGenerateStep(model_name, chunk) ==
    LET content == IF chunk.delta THEN chunk.content ELSE <<>> IN
    [emit |-> IF content /= <<>>
              THEN <<to_ollama_generate_stream_chunk(content, model_name, FALSE)>>
              ELSE <<>>,
     error |-> None]

\* StreamChatStep without its "if content or tool_calls" test.
StreamChatStepUnfiltered(model_name, chunk) ==
    IF ~chunk.delta
    THEN [emit |-> <<>>, error |-> Some(NoDeltaError)]
    ELSE [emit |-> <<to_ollama_chat_stream_chunk(chunk.content, model_name, FALSE,
                                                 chunk.tool_calls)>>,
          error |-> None]

\* StreamChatStep leaving the text out of a record that has tool calls.
StreamChatStepToolsOnly(model_name, chunk) ==
    IF ~chunk.delta
    THEN [emit |-> <<>>, error |-> Some(NoDeltaError)]
    ELSE [emit |-> IF chunk.content /= <<>> \/ OrEmpty(chunk.tool_calls) /= <<>>
                   THEN <<to_ollama_chat_stream_chunk(
                            IF OrEmpty(chunk.tool_calls) /= <<>> THEN <<>> ELSE chunk.content,
                            model_name, FALSE, chunk.tool_calls)>>
                   ELSE <<>>,
          error |-> None]

\* StreamChatStep with the test of _stream_generate, "if content".
StreamChatStepTextOnly(model_name, chunk) ==
    IF ~chunk.delta
    THEN [emit |-> <<>>, error |-> Some(NoDeltaError)]
    ELSE [emit |-> IF chunk.content /= <<>>
                   THEN <<to_ollama_chat_stream_chunk(chunk.content, model_name, FALSE,
                                                      chunk.tool_calls)>>
                   ELSE <<>>,
          error |-> None]

\* The body of "async for chunk" in _stream_chat.
StreamChatStep(model_name, chunk) ==
    IF ~chunk.delta
    THEN [emit |-> <<>>, error |-> Some(NoDeltaError)]
    ELSE [emit |-> IF chunk.content /= <<>> \/ OrEmpty(chunk.tool_calls) /= <<>>
                   THEN <<to_ollama_chat_stream_chunk(chunk.content, model_name, FALSE,
                                                      chunk.tool_calls)>>
                   ELSE <<>>,
          error |-> None]

StreamStep(kind, model_name, chunk) ==
    IF kind = "generate" THEN StreamGenerateStep(model_name, chunk)
    ELSE StreamChatStep(model_name, chunk)

\* StreamFinal with the elapsed time passed one argument too late, as the
\* prompt token count.
StreamFinalShifted(kind, model_name, duration) ==
    IF kind = "generate"
    THEN <<to_ollama_generate_response(<<>>, model_name, 0, duration, 0)>>
    ELSE <<to_ollama_chat_response(<<>>, model_name, 0, duration, 0, None)>>

\* "Final chunk": what the pump yields once the upstream is exhausted.
StreamFinal(kind, model_name, duration) ==
    IF kind = "generate"
    THEN <<to_ollama_generate_response(<<>>, model_name, duration, 0, 0)>>
    ELSE <<to_ollama_chat_response(<<>>, model_name, duration, 0, 0, None)>>

\* StreamError yielding the error as a stream chunk with done left at its
\* default.
StreamErrorNotDone(kind, model_name, e) ==
    [emit |-> IF kind = "generate"
              THEN <<to_ollama_generate_stream_chunk(<<"Error processing request: ", e>>,
                                                     model_name, FALSE)>>
              ELSE <<to_ollama_chat_stream_chunk(<<"Error processing request: ", e>>,
                                                 model_name, FALSE, None)>>,
     raised |-> FALSE]

\* StreamError that ends the stream with the ordinary final chunk.
StreamErrorSilent(kind, model_name, e) ==
    [emit |-> StreamFinal(kind, model_name, 0), raised |-> FALSE]

\* StreamError without the handler: the exception leaves the generator.
StreamErrorRaises(kind, model_name, e) == [emit |-> <<>>, raised |-> TRUE]

\* except Exception as e in the pump: the records yielded, and whether the
\* exception leaves the generator.
StreamError(kind, model_name, e) ==
    [emit |-> IF kind = "generate"
              THEN <<to_ollama_generate_response(<<"Error processing request: ", e>>,
                                                 model_name, 0, 0, 0)>>
              ELSE <<to_ollama_chat_response(<<"Error processing request: ", e>>,
                                             model_name, 0, 0, 0, None)>>,
     raised |-> FALSE]

\* ------------------------------------------------------ request actions
Endpoints == {"generate", "chat", "show"}
StreamFields == {None, Some(TRUE), Some(FALSE), NullField}

\* A request arrives at /api/generate, /api/chat or /api/show with the
\* parsed body (kind is the endpoint) and its handler runs to its first
\* suspension point or to its return.
Handle(body) ==
    /\ rq_pc \in {"idle", "responded", "closed", "cancelled"}
    /\ LET kind == body.kind
           name == body.model
           found == get_litellm_config(providers, name)
       IN  /\ rq' = body
           /\ lite_config' = found
           /\ out' = <<>>
           /\ held' = <<>>
           /\ handle' = "none"
           /\ up' = <<>>
           /\ up_end' = "open"
           /\ raised' = FALSE
           /\ IF found = None
              THEN /\ resp' = NotFoundResponse(name)
                   /\ rq_pc' = "responded"
                   /\ calls' = <<>>
                   /\ call_snap' = <<>>
              ELSE IF kind = "show"
              THEN /\ resp' = JSONResponse(
                        to_ollama_model_info(name, found[1].provider, found[1].model_name),
                        200)
                   /\ rq_pc' = "responded"
                   /\ calls' = <<>>
                   /\ call_snap' = <<>>
              ELSE IF HandlerOptions(body, found[1]).raised
              THEN /\ resp' = InternalServerError
                   /\ rq_pc' = "responded"
                   /\ calls' = <<>>
                   /\ call_snap' = <<>>
              ELSE IF StreamFlag(body)
              THEN /\ resp' = StreamingResponse("application/x-ndjson")
                   /\ rq_pc' = "pump_call"
                   /\ calls' = <<>>
                   /\ call_snap' = <<>>
              ELSE /\ resp' = NoResponse
                   /\ rq_pc' = "await"
                   /\ calls' = <<UpstreamCall(body, found[1], FALSE)>>
                   /\ call_snap' = providers
    /\ UNCHANGED <<storeVars, rd, tagVars, lockVars, logVars, directVars, uiVars>>

\* The bodies that hold model and stream and nothing else, one per endpoint,
\* name and stream field.
RequestBodies ==
    {[kind |-> kind, model |-> name, stream |-> stream] :
        kind \in Endpoints, name \in ModelNames, stream \in StreamFields}

\* A request arrives at /api/embed, /api/create, /api/copy, /api/delete,
\* /api/pull or /api/push: the handler does not look at the request and
\* returns its fixed response.
Unsupported(endpoint) ==
    /\ rq_pc \in {"idle", "responded", "closed", "cancelled"}
    /\ rq' = [kind |-> endpoint, model |-> "", stream |-> None]
    /\ resp' = UnsupportedResponse(endpoint)
    /\ rq_pc' = "responded"
    /\ lite_config' = None
    /\ out' = <<>>
    /\ held' = <<>>
    /\ handle' = "none"
    /\ up' = <<>>
    /\ up_end' = "open"
    /\ calls' = <<>>
    /\ call_snap' = <<>>
    /\ raised' = FALSE
    /\ UNCHANGED <<storeVars, rd, tagVars, lockVars, logVars, directVars, uiVars>>

\* Buffered path: litellm.acompletion returns and the handler translates.
UpstreamReturn(response, elapsed) ==
    /\ rq_pc = "await"
    /\ resp' = JSONResponse(
           BufferedBody(rq.kind, RecordModel(rq.model, lite_config[1]),
                        response, elapsed),
           200)
    /\ rq_pc' = "responded"
    /\ UNCHANGED <<rq, lite_config, out, up, up_end, calls, raised, held, handle, call_snap>>
    /\ UNCHANGED <<storeVars, rd, tagVars, lockVars, logVars, directVars, uiVars>>

\* Buffered path: litellm.acompletion raises.
UpstreamRaise(e) ==
    /\ rq_pc = "await"
    /\ resp' = BufferedFailure(e)
    /\ rq_pc' = "responded"
    /\ up_end' = "callfail"
    /\ UNCHANGED <<rq, lite_config, out, up, calls, raised, held, handle, call_snap>>
    /\ UNCHANGED <<storeVars, rd, tagVars, lockVars, logVars, directVars, uiVars>>

\* Streaming path: the transport starts the generator, which awaits
\* litellm.acompletion(stream=True) and gets the stream object.
PumpCall ==
    /\ rq_pc = "pump_call"
    /\ calls' = <<UpstreamCall(
                    rq, PumpEntry(lite_config, get_litellm_config(providers, rq.model))[1],
                    TRUE)>>
    /\ call_snap' = providers
    /\ handle' = "open"
    /\ rq_pc' = "iter"
    /\ UNCHANGED <<rq, lite_config, resp, out, up, up_end, raised, held>>
    /\ UNCHANGED <<storeVars, rd, tagVars, lockVars, logVars, directVars, uiVars>>

\* Streaming path: litellm.acompletion(stream=True) raises; the handler of
\* the pump builds the error record.
PumpCallFail(e) ==
    /\ rq_pc = "pump_call"
    /\ calls' = <<UpstreamCall(
                    rq, PumpEntry(lite_config, get_litellm_config(providers, rq.model))[1],
                    TRUE)>>
    /\ call_snap' = providers
    /\ LET r == StreamError(rq.kind, RecordModel(rq.model, lite_config[1]), e)
       IN  /\ held' = held \o r.emit
           /\ raised' = r.raised
           /\ rq_pc' = IF held \o r.emit = <<>> THEN "closed" ELSE "final"
    /\ up_end' = "callfail"
    /\ UNCHANGED <<rq, lite_config, resp, out, up, handle>>
    /\ UNCHANGED <<storeVars, rd, tagVars, lockVars, logVars, directVars, uiVars>>

\* The upstream stream yields one element and the loop body builds the
\* record for it, or raises into the handler of the pump (the stream object
\* is then left as it is).
PumpNext(chunk) ==
    /\ rq_pc = "iter"
    /\ MayRequestNext(held)
    /\ Len(up) < MaxChunks
    /\ up' = Append(up, chunk)
    /\ LET model_name == RecordModel(rq.model, lite_config[1])
           s == StreamStep(rq.kind, model_name, chunk)
       IN  IF s.error = None
           THEN /\ held' = held \o s.emit
                /\ UNCHANGED <<rq_pc, raised>>
           ELSE LET r == StreamError(rq.kind, model_name, s.error[1]) IN
                /\ held' = held \o s.emit \o r.emit
                /\ raised' = r.raised
                /\ rq_pc' = IF held \o s.emit \o r.emit = <<>> THEN "closed" ELSE "final"
    /\ UNCHANGED <<rq, lite_config, resp, out, up_end, calls, handle, call_snap>>
    /\ UNCHANGED <<storeVars, rd, tagVars, lockVars, logVars, directVars, uiVars>>

\* The upstream stream is exhausted, which ends the stream object: the pump
\* builds the final chunk.
PumpEnd(elapsed) ==
    /\ rq_pc = "iter"
    /\ MayRequestNext(held)
    /\ held' = held \o StreamFinal(rq.kind,
                                   RecordModel(rq.model, lite_config[1]),
                                   elapsed)
    /\ up_end' = "end"
    /\ handle' = "released"
    /\ rq_pc' = "final"
    /\ UNCHANGED <<rq, lite_config, resp, out, up, calls, raised, call_snap>>
    /\ UNCHANGED <<storeVars, rd, tagVars, lockVars, logVars, directVars, uiVars>>

\* The upstream stream raises instead of yielding its next element, which
\* ends the stream object: the handler of the pump builds the error record.
PumpFail(e) ==
    /\ rq_pc = "iter"
    /\ MayRequestNext(held)
    /\ LET r == StreamError(rq.kind, RecordModel(rq.model, lite_config[1]), e)
       IN  /\ held' = held \o r.emit
           /\ raised' = r.raised
           /\ rq_pc' = IF held \o r.emit = <<>> THEN "closed" ELSE "final"
    /\ up_end' = "fail"
    /\ handle' = "released"
    /\ UNCHANGED <<rq, lite_config, resp, out, up, calls, call_snap>>
    /\ UNCHANGED <<storeVars, rd, tagVars, lockVars, logVars, directVars, uiVars>>

\* yield: the pump hands the record it built to the consumer; after its
\* last record the generator returns.
Forward ==
    /\ rq_pc \in {"iter", "final"}
    /\ held /= <<>>
    /\ out' = Append(out, Head(held))
    /\ held' = Tail(held)
    /\ rq_pc' = IF rq_pc = "final" /\ Tail(held) = <<>> THEN "closed" ELSE rq_pc
    /\ UNCHANGED <<rq, lite_config, resp, up, up_end, calls, raised, handle, call_snap>>
    /\ UNCHANGED <<storeVars, rd, tagVars, lockVars, logVars, directVars, uiVars>>

\* The consumer stops draining the stream (client disconnect): the generator
\* is closed where it is suspended, runs no handler (GeneratorExit and
\* CancelledError are no Exception) and no cleanup, and yields nothing more.
Cancel ==
    /\ rq_pc \in {"pump_call", "iter"}
    /\ held = <<>>
    /\ rq_pc' = "cancelled"
    /\ UNCHANGED <<rq, lite_config, resp, out, up, up_end, calls, raised, held, handle,
                   call_snap>>
    /\ UNCHANGED <<storeVars, rd, tagVars, lockVars, logVars, directVars, uiVars>>

\* After ConfigManager() ran with providers.json holding FileA.
LoadedId == CHOOSE c \in ContentIds : Contents[c] = FileA

Init ==
    /\ file = LoadedId
    /\ pending = 0
    /\ providers = ParseAndBuild(Contents[LoadedId]).tbl
    /\ rl_pc = "idle"
    /\ rl_new = <<>>
    /\ rl_result = "reloaded"
    /\ rl_pre = <<>>
    /\ rl_data = LoadedId
    /\ lastParsed = LoadedId
    /\ watcher = "running"
    /\ rd = NoRead
    /\ InitRequest
    /\ InitTags
    /\ InitLock
    /\ InitLog
    /\ InitDirect
    /\ InitUi

Next ==
    \/ \E body \in RequestBodies : Handle(body)
    \/ \E endpoint \in UnsupportedEndpoints : Unsupported(endpoint)
    \/ \E response \in Completions, elapsed \in Elapsed : UpstreamReturn(response, elapsed)
    \/ \E e \in UpstreamErrors : UpstreamRaise(e)
    \/ PumpCall
    \/ \E e \in UpstreamErrors : PumpCallFail(e)
    \/ \E chunk \in Chunks : PumpNext(chunk)
    \/ \E elapsed \in Elapsed : PumpEnd(elapsed)
    \/ \E e \in UpstreamErrors : PumpFail(e)
    \/ Forward
    \/ Cancel

\* The router and the pump over a loaded configuration.
Spec == Init /\ [][Next]_vars

\* ---------------------------------------------- requests during reloads
\* What an edit writes while a request is under way: m1 redefined and m2
\* gone (FileB), every model gone (FileEmpty), the first configuration back.
MidContents == {c \in ContentIds : Contents[c] \in {FileA, FileB, FileEmpty}}
MidCompletion ==
    [content |-> Some(<<"hello">>), tool_calls |-> None,
     usage |-> Some([prompt_tokens |-> 3, completion_tokens |-> 1])]

NextMid ==
    \/ \E c \in MidContents : WriteFile(c)
    \/ ReloadBegin
    \/ ReloadLoad
    \/ ReloadSwap
    \/ \E body \in {b \in RequestBodies : /\ b.kind \in {"generate", "chat"}
                                          /\ b.stream \in {Some(TRUE), Some(FALSE)}} :
          Handle(body)
    \/ UpstreamReturn(MidCompletion, 1500)
    \/ PumpCall
    \/ \E chunk \in {c \in Chunks : c = ChunkText(<<"Hel">>)} : PumpNext(chunk)
    \/ PumpEnd(1500)
    \/ Forward

\* Requests served while the watcher reloads an edited providers.json.
SpecMid == Init /\ [][NextMid]_vars

\* ---------------------------------------------------- concurrent reloads
\* A thread other than the watcher's calls reload_providers while the file
\* is there, and passes the exists() test.
DirectBegin ==
    /\ dc_pc = "idle"
    /\ Contents[file].exists
    /\ dc_pc' = "open"
    /\ UNCHANGED <<dc_new, dc_data>>
    /\ UNCHANGED <<storeVars, rd, reqVars, tagVars, lockVars, logVars, uiVars>>

\* That call from open() to the end of the loops, on the content the file
\* has now; a warning or an exception ends the call.
DirectLoad ==
    /\ dc_pc = "open"
    /\ LET r == ParseAndBuild(Contents[file]) IN
       IF ReachesSwap(r)
       THEN /\ dc_pc' = "swap"
            /\ dc_new' = r.tbl
            /\ lastParsed' = file
       ELSE /\ dc_pc' = "idle"
            /\ dc_new' = <<>>
            /\ UNCHANGED lastParsed
    /\ dc_data' = file
    /\ UNCHANGED <<file, pending, providers, rl_pc, rl_new, rl_result, rl_pre, rl_data,
                   watcher>>
    /\ UNCHANGED <<rd, reqVars, tagVars, lockVars, logVars, uiVars>>

\* That call's "with self._lock: self._providers = new_providers".
DirectSwap ==
    /\ dc_pc = "swap"
    /\ providers' = dc_new
    /\ dc_pc' = "idle"
    /\ dc_new' = <<>>
    /\ tg_snaps' = IF tg_pc = "loop" THEN tg_snaps \cup {dc_new} ELSE tg_snaps
    /\ UNCHANGED <<file, pending, rl_pc, rl_new, rl_result, rl_pre, rl_data, lastParsed,
                   watcher>>
    /\ UNCHANGED <<dc_data, rd, reqVars, tg_pc, tg_names, tg_items, lockVars, logVars, uiVars>>

NextReloads ==
    \/ \E c \in MidContents : WriteFile(c)
    \/ ReloadBegin
    \/ ReloadLoad
    \/ ReloadSwap
    \/ DirectBegin
    \/ DirectLoad
    \/ DirectSwap
    \/ \E name \in ModelNames : Resolve(name)
    \/ ListModels

\* The watcher's reloads and those of another thread on one ConfigManager.
SpecReloads == Init /\ [][NextReloads]_vars

\* ------------------------------------------- the arguments of the call
\* The configurations a request is resolved in: one reasoning setting per
\* entry (FileA), none (FileDup), both and both blank (FileReasoning).
CallContents == {c \in ContentIds : Contents[c] \in {FileA, FileDup, FileReasoning}}

\* the names asked for: configured in each of CallContents but m2 in FileDup
CallNames == {"m1", "m2"}

\* A body with or without the key.
OptionalKey(key, values) == {NoOptions} \cup {key :> v : v \in values}

\* "options" of a request: null, empty, recognized keys, unrecognized keys,
\* the reasoning settings of the upstream API.
OptionObjects ==
    { NoOptions,
      [seed |-> 42],
      [temperature |-> 1, num_predict |-> 64, top_p |-> 2],
      [temperature |-> 1, seed |-> 42, max_tokens |-> 8],
      [reasoning_effort |-> "low", thinking |-> [type |-> "disabled"],
       thinking_budget |-> 16] }
OptionValues == OptionObjects \cup {JsonNull}

System == [role |-> "system", content |-> "be brief"]
UserTurn == [role |-> "user", content |-> "hi"]
AssistantTurn == [role |-> "assistant", content |-> "hello"]
MessageLists == {<<>>, <<System, UserTurn, AssistantTurn, UserTurn>>}
ToolLists == {<<>>, <<[type |-> "function", name |-> "f"]>>}
Formats == {"json", "text"}

GenerateBodies ==
    { [kind |-> "generate", model |-> name, stream |-> Some(stream)]
        @@ options @@ system @@ prompt @@ tools @@ format :
        name \in CallNames, stream \in BOOLEAN,
        options \in OptionalKey("options", OptionValues),
        system \in OptionalKey("system", {"", "be brief"}),
        prompt \in OptionalKey("prompt", {"hi"}),
        tools \in OptionalKey("tools", ToolLists \ {<<>>}),
        format \in OptionalKey("format", Formats) }
ChatBodies ==
    { [kind |-> "chat", model |-> name, stream |-> Some(stream)]
        @@ options @@ messages @@ tools @@ format :
        name \in CallNames, stream \in BOOLEAN,
        options \in OptionalKey("options", OptionValues),
        messages \in OptionalKey("messages", MessageLists),
        tools \in OptionalKey("tools", ToolLists),
        format \in OptionalKey("format", Formats) }

\* After ConfigManager() ran with providers.json holding one of CallContents.
InitCall ==
    /\ file \in CallContents
    /\ pending = 0
    /\ providers = ParseAndBuild(Contents[file]).tbl
    /\ rl_pc = "idle"
    /\ rl_new = <<>>
    /\ rl_result = "reloaded"
    /\ rl_pre = <<>>
    /\ rl_data = file
    /\ lastParsed = file
    /\ watcher = "running"
    /\ rd = NoRead
    /\ InitRequest
    /\ InitTags
    /\ InitLock
    /\ InitLog
    /\ InitDirect
    /\ InitUi

NextCall ==
    \/ \E body \in GenerateBodies \cup ChatBodies : Handle(body)
    \/ PumpCall

\* Requests of every body up to their upstream call.
SpecCall == InitCall /\ [][NextCall]_vars

\* ------------------------------------------------------- the usage log
\* What a caller logs (the timestamp of an entry is left out).
LogEntries ==
    { [provider |-> "openai", model |-> "gpt-4o", input_tokens |-> 3, output_tokens |-> 1],
      [provider |-> "anthropic", model |-> "claude", input_tokens |-> 5, output_tokens |-> 2] }

\* add_usage_log up to its save: logs = self._load_json(self.usage_file),
\* which is [] for a file json.load rejects, and logs.append(log_entry).
LogLoad(w, entry) ==
    /\ lw[w].pc = "out"
    /\ Len(log_hist) + Cardinality({v \in LogWriters : lw[v].pc /= "out"}) < MaxLog
    /\ lw' = [lw EXCEPT ![w] = [pc |-> "loaded", logs |-> Append(usage_file, entry)]]
    /\ UNCHANGED <<usage_file, log_hist>>
    /\ UNCHANGED <<storeVars, rd, reqVars, tagVars, lockVars, directVars, uiVars>>

\* _save_json: open(path, "w") truncates the file, which json.load rejects
\* until the dump is on disk.
LogOpen(w) ==
    /\ lw[w].pc = "loaded"
    /\ usage_file' = <<>>
    /\ lw' = [lw EXCEPT ![w].pc = "opened"]
    /\ UNCHANGED log_hist
    /\ UNCHANGED <<storeVars, rd, reqVars, tagVars, lockVars, directVars, uiVars>>

\* _save_json: json.dump(data, f) and the close of the file; the call
\* returns.  log_hist is the sequence of the entries of the calls returned.
LogDump(w) ==
    /\ lw[w].pc = "opened"
    /\ usage_file' = lw[w].logs
    /\ log_hist' = Append(log_hist, lw[w].logs[Len(lw[w].logs)])
    /\ lw' = [lw EXCEPT ![w] = [pc |-> "out", logs |-> <<>>]]
    /\ UNCHANGED <<storeVars, rd, reqVars, tagVars, lockVars, directVars, uiVars>>

NextLog ==
    \/ \E w \in LogWriters, entry \in LogEntries : LogLoad(w, entry)
    \/ \E w \in LogWriters : LogOpen(w)
    \/ \E w \in LogWriters : LogDump(w)

\* Callers of Storage.add_usage_log on one usage_logs.json.
SpecLog == Init /\ [][NextLog]_vars

\* ------------------------------------- models saved by the settings UI
\* A model name is the sequence of the pieces it is put together from.
\* str(n) of a counter
DigitChars == <<"0", "1", "2", "3", "4", "5", "6", "7", "8", "9">>
RECURSIVE IntText(_)
IntText(n) ==
    IF n < 10 THEN <<DigitChars[n + 1]>>
    ELSE IntText(n \div 10) \o <<DigitChars[(n % 10) + 1]>>

\* what the user types as the model's unique id, and the providers the
\* selection may name ("p3" was deleted since it was selected)
NameInputs == {<<"a">>, <<"b">>, <<"a", " (", "p2", ")">>}
ProviderNames == {"p1", "p2", "p3"}
ActualModelNames == {"gpt-4o", "llama3"}

\* provider_config.get("models", [])
ModelsOf(value) == Get(value, "models", <<>>)
\* name in providers
HasProvider(tbl, provider_name) == \E i \in 1..Len(tbl) : tbl[i].id = provider_name
ModelCount(tbl) ==
    LET RECURSIVE Sum(_)
        Sum(i) == IF i = 0 THEN 0 ELSE Len(ModelsOf(tbl[i].value)) + Sum(i - 1)
    IN  Sum(Len(tbl))

\* ReplaceOrAppend adding the config at the end whatever the list holds.
ReplaceOrAppendAlwaysAppend(models, config) == Append(models, config)

\* The loop of save_model over the provider's models: the config takes the
\* place of a model of its name, or is appended.
ReplaceOrAppend(models, config) ==
    IF \E j \in 1..Len(models) : models[j].name = config.name
    THEN [j \in 1..Len(models) |->
            IF models[j].name = config.name THEN config ELSE models[j]]
    ELSE Append(models, config)

\* Storage.save_model: ValueError for a provider the table has not, else
\* the table with the provider's "models" replaced.
save_model(tbl, provider_name, config) ==
    IF ~HasProvider(tbl, provider_name)
    THEN [raised |-> TRUE, tbl |-> tbl]
    ELSE [raised |-> FALSE,
          tbl |-> [i \in 1..Len(tbl) |->
                     IF tbl[i].id = provider_name
                     THEN [id |-> tbl[i].id,
                           value |-> ("models" :>
                                        ReplaceOrAppend(ModelsOf(tbl[i].value), config))
                                     @@ tbl[i].value]
                     ELSE tbl[i]]]

\* Storage.list_models_flat: a dict from model name to the model with its
\* provider's name, filled in file order.
RECURSIVE FlatModels(_, _, _, _)
FlatModels(tbl, i, j, acc) ==
    IF i > Len(tbl) THEN acc
    ELSE IF j > Len(ModelsOf(tbl[i].value)) THEN FlatModels(tbl, i + 1, 1, acc)
    ELSE LET m == ModelsOf(tbl[i].value)[j] IN
         FlatModels(tbl, i, j + 1,
                    DictSet(acc, m.name, ("provider_name" :> tbl[i].id) @@ m))
list_models_flat(tbl) == FlatModels(tbl, 1, 1, <<>>)

\* model_name_input.endswith(suffix)
EndsWith(name, suffix) ==
    /\ Len(name) >= Len(suffix)
    /\ SubSeq(name, Len(name) - Len(suffix) + 1, Len(name)) = suffix

\* "while save_key in existing_models" of _get_unique_model_key: None when a
\* candidate is a model of the selected provider, else the first free one.
RECURSIVE FreeKey(_, _, _, _, _)
FreeKey(existing, base_candidate, save_key, counter, provider_name) ==
    IF DictGet(existing, save_key) = None THEN Some(save_key)
    ELSE IF DictGet(existing, save_key)[1].provider_name = provider_name THEN None
    ELSE FreeKey(existing, base_candidate,
                 base_candidate \o <<"_">> \o IntText(counter), counter + 1,
                 provider_name)

\* get_unique_model_key letting a name of another provider through.
get_unique_model_key_per_provider(tbl, model_name_input, provider_name) ==
    LET existing == list_models_flat(tbl) IN
    IF DictGet(existing, model_name_input) = None THEN Some(model_name_input)
    ELSE IF DictGet(existing, model_name_input)[1].provider_name = provider_name THEN None
    ELSE Some(model_name_input)

\* _get_unique_model_key: the name as typed if no model has it, None (an
\* error is shown) if a model of the selected provider has it, else the
\* name with the provider as suffix, numbered until it is free.
get_unique_model_key(tbl, model_name_input, provider_name) ==
    LET existing == list_models_flat(tbl)
        suffix == <<" (", provider_name, ")">>
        base_candidate ==
            IF EndsWith(model_name_input, suffix) THEN model_name_input
            ELSE model_name_input \o suffix
    IN  IF DictGet(existing, model_name_input) = None THEN Some(model_name_input)
        ELSE IF DictGet(existing, model_name_input)[1].provider_name = provider_name
        THEN None
        ELSE FreeKey(existing, base_candidate, base_candidate, 2, provider_name)

\* ModelConfig as _save_model builds it (the reasoning settings left unset)
ModelConfig(name, model_name) ==
    [name |-> name, model_name |-> model_name, reasoning_effort |-> None,
     thinking_budget |-> None]

\* Storage.save_model(provider_name, config) called with any config.
SaveModel(provider_name, config) ==
    LET r == save_model(ptable, provider_name, config) IN
    /\ ModelCount(r.tbl) <= MaxModels
    /\ ptable' = r.tbl
    /\ sv' = [op |-> "save_model",
              result |-> IF r.raised THEN "ValueError" ELSE "saved",
              key |-> Some(config.name)]
    /\ UNCHANGED <<storeVars, rd, reqVars, tagVars, lockVars, logVars, directVars>>

\* _save_model: the button of the add-model form with the selected
\* provider, the typed id and the typed upstream model name.
UiSaveModel(provider_name, model_name_input, actual_model_name) ==
    LET save_key == get_unique_model_key(ptable, model_name_input, provider_name) IN
    IF save_key = None
    THEN /\ sv' = [op |-> "_save_model", result |-> "rejected", key |-> None]
         /\ UNCHANGED ptable
         /\ UNCHANGED <<storeVars, rd, reqVars, tagVars, lockVars, logVars, directVars>>
    ELSE LET r == save_model(ptable, provider_name,
                             ModelConfig(save_key[1], actual_model_name)) IN
         /\ ModelCount(r.tbl) <= MaxModels
         /\ ptable' = r.tbl
         /\ sv' = [op |-> "_save_model",
                   result |-> IF r.raised THEN "ValueError" ELSE "saved",
                   key |-> save_key]
         /\ UNCHANGED <<storeVars, rd, reqVars, tagVars, lockVars, logVars, directVars>>

\* the configs save_model is called with
ModelConfigs ==
    {ModelConfig(name, model_name) : name \in NameInputs, model_name \in ActualModelNames}

NextStorage ==
    \E provider_name \in ProviderNames, config \in ModelConfigs :
        SaveModel(provider_name, config)

\* Callers of Storage.save_model on one providers.json.
SpecStorage == Init /\ [][NextStorage]_vars

NextSettings ==
    \E provider_name \in ProviderNames, model_name_input \in NameInputs,
       actual_model_name \in ActualModelNames :
        UiSaveModel(provider_name, model_name_input, actual_model_name)

\* The add-model form of the settings UI, used again and again.
SpecSettings == Init /\ [][NextSettings]_vars

\* -------------------------------------------------------- /api/tags
\* GET /api/tags arrives: models = [] and config.list_models() returns the
\* names of the snapshot in force.
TagsBegin ==
    /\ tg_pc \in {"idle", "responded"}
    /\ tg_names' = list_models(providers)
    /\ tg_items' = <<>>
    /\ tg_snaps' = {providers}
    /\ tg_pc' = "loop"
    /\ UNCHANGED <<storeVars, rd, reqVars, lockVars, logVars, directVars, uiVars>>

\* One turn of the loop: config.get_litellm_config(model_name) on the
\* snapshot in force now, and the item appended if the name is there.
TagsLookup ==
    /\ tg_pc = "loop"
    /\ tg_names /= <<>>
    /\ LET model_name == Head(tg_names)
           found == get_litellm_config(providers, model_name)
       IN  tg_items' =
               IF found /= None
               THEN Append(tg_items,
                           to_ollama_model_list_item(model_name, found[1].provider,
                                                     found[1].model_name))
               ELSE tg_items
    /\ tg_names' = Tail(tg_names)
    /\ UNCHANGED <<storeVars, rd, reqVars, lockVars, logVars, directVars, uiVars>>
    /\ UNCHANGED <<tg_pc, tg_snaps>>

\* return JSONResponse({"models": models})
TagsRespond ==
    /\ tg_pc = "loop"
    /\ tg_names = <<>>
    /\ tg_pc' = "responded"
    /\ UNCHANGED <<storeVars, rd, reqVars, lockVars, logVars, directVars, uiVars>>
    /\ UNCHANGED <<tg_names, tg_items, tg_snaps>>

NextTags ==
    \/ \E c \in MidContents : WriteFile(c)
    \/ ReloadBegin
    \/ ReloadLoad
    \/ ReloadSwap
    \/ TagsBegin
    \/ TagsLookup
    \/ TagsRespond

\* /api/tags served while the watcher reloads an edited providers.json.
SpecTags == Init /\ [][NextTags]_vars

\* ------------------------------------------------- ConfigManager._lock
ReadOps ==
    {[op |-> "list", name |-> "", result |-> None, list |-> <<>>]} \cup
    {[op |-> "resolve", name |-> n, result |-> None, list |-> <<>>] : n \in ModelNames}

\* A thread that serves a request calls get_litellm_config or list_models
\* and comes to its "with self._lock".
ReaderCall(t, read) ==
    /\ th[t].pc = "out"
    /\ th' = [th EXCEPT ![t] = [pc |-> "want", read |-> read]]
    /\ UNCHANGED <<storeVars, rd, reqVars, tagVars, logVars, directVars, uiVars, lock>>

\* Lock.acquire(): a threading.Lock is taken by one thread at a time,
\* whatever the thread is about to do under it.
Acquire(t) ==
    /\ th[t].pc = "want"
    /\ lock = "free"
    /\ lock' = t
    /\ th' = [th EXCEPT ![t].pc = "in"]
    /\ UNCHANGED <<storeVars, rd, reqVars, tagVars, logVars, directVars, uiVars>>

\* The body of the reader's with block and the release of the lock.
ReaderReturn(t) ==
    /\ th[t].pc = "in"
    /\ lock = t
    /\ LET r == th[t].read IN
       th' = [th EXCEPT ![t] =
                [pc |-> "out",
                 read |-> IF r.op = "list"
                          THEN [r EXCEPT !.list = list_models(providers)]
                          ELSE [r EXCEPT !.result = get_litellm_config(providers, r.name)]]]
    /\ lock' = "free"
    /\ UNCHANGED <<storeVars, rd, reqVars, tagVars, logVars, directVars, uiVars>>

\* providers.json is edited to a content that loads, and the observer
\* thread runs reload_providers on it up to "with self._lock".
ObserverCall(c) ==
    /\ th["observer"].pc = "out"
    /\ ParseAndBuild(Contents[c]).kind = "built"
    /\ file' = c
    /\ rl_new' = ParseAndBuild(Contents[c]).tbl
    /\ th' = [th EXCEPT !["observer"].pc = "want"]
    /\ UNCHANGED <<pending, providers, rl_pc, rl_result, rl_pre, rl_data, lastParsed,
                   watcher, rd, reqVars, tagVars, logVars, directVars, uiVars, lock>>

\* self._providers = new_providers and the release of the lock.
ObserverSwap ==
    /\ th["observer"].pc = "in"
    /\ lock = "observer"
    /\ providers' = rl_new
    /\ rl_new' = <<>>
    /\ th' = [th EXCEPT !["observer"].pc = "out"]
    /\ lock' = "free"
    /\ UNCHANGED <<file, pending, rl_pc, rl_result, rl_pre, rl_data, lastParsed,
                   watcher, rd, reqVars, tagVars, logVars, directVars, uiVars>>

NextLock ==
    \/ \E t \in Readers, read \in ReadOps : ReaderCall(t, read)
    \/ \E t \in Threads : Acquire(t)
    \/ \E t \in Readers : ReaderReturn(t)
    \/ \E c \in MidContents : ObserverCall(c)
    \/ ObserverSwap

\* The threads that call into one ConfigManager, at the grain of its lock.
SpecLock == Init /\ [][NextLock]_vars

\* ======================================================== properties
\* ------------------------------------------ what a file content defines
\* The content can be turned into a complete table: valid JSON, an object at
\* the top, every provider value an object, every model with both names.
WellFormed(content) ==
    /\ content.exists
    /\ content.json
    /\ IsDict(content.top)
    /\ \A i \in 1..Len(content.members) :
        /\ IsDict(content.members[i].value)
        /\ LET models == Get(content.members[i].value, "models", <<>>) IN
           \A j \in 1..Len(models) :
               {"name", "model_name"} \subseteq DOMAIN models[j]

\* The file is there and cannot be turned into a complete table.
Malformed(content) == content.exists /\ ~WellFormed(content)

\* The (provider index, model index) pairs of a well-formed content.
Definitions(content) ==
    UNION { {<<i, j>> : j \in 1..Len(Get(content.members[i].value, "models", <<>>))} :
            i \in 1..Len(content.members) }

DefModel(content, d) == content.members[d[1]].value.models[d[2]]

\* cfg carries what definition d of the content says.
Matches(cfg, content, d) ==
    LET prov == content.members[d[1]]
        model == DefModel(content, d)
    IN  /\ cfg.provider =
              (IF "provider" \in DOMAIN prov.value THEN prov.value.provider ELSE prov.id)
        /\ cfg.model_name = model.model_name
        /\ cfg.api_key =
              (IF "api_key" \in DOMAIN prov.value THEN <<prov.value.api_key>> ELSE <<>>)
        /\ cfg.base_url =
              (IF "base_url" \in DOMAIN prov.value THEN <<prov.value.base_url>> ELSE <<>>)
        /\ cfg.reasoning_effort =
              (IF "reasoning_effort" \in DOMAIN model
               THEN <<model.reasoning_effort>> ELSE <<>>)
        /\ cfg.thinking_budget =
              (IF "thinking_budget" \in DOMAIN model
               THEN <<model.thinking_budget>> ELSE <<>>)

DefinedNames(content) == {DefModel(content, d).name : d \in Definitions(content)}

\* d comes before e in file order.
Before(d, e) == d[1] < e[1] \/ (d[1] = e[1] /\ d[2] < e[2])

\* d is the last definition of its name in the content.
IsLastDefinition(content, d) ==
    \A e \in Definitions(content) :
        DefModel(content, e).name = DefModel(content, d).name => ~Before(d, e)

\* tbl is the complete table of the content: one entry for each name the
\* content defines, no other entry, each entry carrying whole the definition
\* of its name (the last one in file order when the file repeats a name).
CompleteTable(tbl, content) ==
    /\ {tbl[k].name : k \in 1..Len(tbl)} = DefinedNames(content)
    /\ \A k, l \in 1..Len(tbl) : tbl[k].name = tbl[l].name => k = l
    /\ \A k \in 1..Len(tbl) :
        \E d \in Definitions(content) :
            /\ DefModel(content, d).name = tbl[k].name
            /\ IsLastDefinition(content, d)
            /\ Matches(tbl[k].cfg, content, d)

IsSnapshot(tbl) ==
    \/ tbl = <<>>
    \/ \E c \in ContentIds :
        WellFormed(Contents[c]) /\ CompleteTable(tbl, Contents[c])

\* C7: a reload is all-or-nothing.  The snapshot is at every instant the
\* initial empty table or the complete table of one well-formed file
\* content; what a resolve returned is NotFound or one whole entry of such a
\* content, and what listModels returned is the name list of such a table,
\* also while a reload is under way.
C7_ReloadAllOrNothing ==
    /\ IsSnapshot(providers)
    /\ rd.op = "resolve" /\ rd.result /= None =>
        \E c \in ContentIds :
            /\ WellFormed(Contents[c])
            /\ \E d \in Definitions(Contents[c]) :
                /\ DefModel(Contents[c], d).name = rd.name
                /\ Matches(rd.result[1], Contents[c], d)
    /\ rd.op = "list" =>
        \/ rd.list = <<>>
        \/ \E c \in ContentIds :
            /\ WellFormed(Contents[c])
            /\ {rd.list[k] : k \in 1..Len(rd.list)} = DefinedNames(Contents[c])

\* A resolve returned the pre-reload entry while a reload that will replace
\* that entry had its new table built and not yet swapped in.
C7_Witness ==
    /\ rl_pc = "swap"
    /\ rd.op = "resolve"
    /\ rd.result /= None
    /\ rd.result = get_litellm_config(providers, rd.name)
    /\ rd.result /= get_litellm_config(rl_new, rd.name)

\* C8: once a reload attempt on a malformed file has ended, listModels() and
\* resolve(name) for every name return what they returned when the attempt
\* began, however often the attempt is repeated.
C8_MalformedLeavesSnapshot ==
    rl_pc = "idle" /\ Malformed(Contents[rl_data]) =>
        /\ list_models(providers) = list_models(rl_pre)
        /\ \A name \in ModelNames :
            get_litellm_config(providers, name) = get_litellm_config(rl_pre, name)

\* A reload attempt on a malformed file ended while the snapshot held models.
C8_Witness ==
    /\ rl_pc = "idle"
    /\ Malformed(Contents[rl_data])
    /\ rl_result \in {"warned", "raised"}
    /\ providers /= <<>>

\* C9: reload() never raises to its caller: every reload attempt ends in a
\* normal return (a warning for a file that gives no complete table).
C9_ReloadNeverRaises ==
    rl_pc = "idle" /\ Malformed(Contents[rl_data]) => rl_result = "warned"

\* C10: after a reload completed, resolve(name) returns for every name the
\* latest successfully parsed content defines an entry carrying one of that
\* content's definitions of the name (provider tag, upstream model name, API
\* key, base URL, reasoning effort, thinking budget), and NotFound for every
\* other name.
C10_ResolveMatchesLatest ==
    rl_pc = "idle" /\ lastParsed /= 0 =>
        \A name \in ModelNames :
            LET content == Contents[lastParsed]
                r == get_litellm_config(providers, name)
            IN  IF name \in DefinedNames(content)
                THEN /\ r /= None
                     /\ \E d \in Definitions(content) :
                            /\ DefModel(content, d).name = name
                            /\ Matches(r[1], content, d)
                ELSE r = None

\* A reload of a content that drops a model the previous snapshot defined
\* has completed: the dropped name no longer resolves, a kept one does.
C10_Witness ==
    /\ rl_pc = "idle"
    /\ rl_result = "reloaded"
    /\ lastParsed /= 0
    /\ get_litellm_config(rl_pre, "m2") /= None
    /\ get_litellm_config(providers, "m2") = None
    /\ get_litellm_config(providers, "m1") /= None

\* ------------------------------------------------------ stream records
\* The text field of a record: response (generate), message.content (chat).
TextOf(kind, record) ==
    IF kind = "generate" THEN record.response ELSE record.message.content

\* An upstream element that is a text delta: a delta with no tool-call
\* fragment (its text may be empty).
IsTextDelta(chunk) == chunk.delta /\ chunk.tool_calls = None

HasText(chunk) == chunk.content /= <<>>

\* An element with something to forward: text, or in a chat a tool-call
\* fragment.
HasGenerateFragment(chunk) == HasText(chunk)
HasChatFragment(chunk) == HasText(chunk) \/ chunk.tool_calls /= None
Forwarded(kind, chunks) ==
    IF kind = "generate" THEN SelectSeq(chunks, HasGenerateFragment)
    ELSE SelectSeq(chunks, HasChatFragment)

\* records[1..n] are the non-terminal records of chunks, in order.
CarriesInOrder(kind, records, chunks) ==
    /\ Len(records) >= Len(chunks)
    /\ \A i \in 1..Len(chunks) :
        /\ records[i].done = FALSE
        /\ records[i].model = rq.model
        /\ TextOf(kind, records[i]) = chunks[i].content

IsErrorText(text) ==
    /\ Len(text) = 2
    /\ text[1] = "Error processing request: "
    /\ text[2] \in UpstreamErrors

\* C1: when the upstream of a streaming generate or chat request yielded
\* text deltas d1..dn and ended normally, the output is one done=false record
\* per non-empty di, in upstream order and carrying di, followed by exactly
\* one terminal record with empty text and done=true.
C1_StreamNormalEnd ==
    (/\ rq_pc = "closed"
     /\ up_end = "end"
     /\ \A i \in 1..Len(up) : IsTextDelta(up[i])) =>
        LET texts == SelectSeq(up, HasText) IN
        /\ Len(out) = Len(texts) + 1
        /\ CarriesInOrder(rq.kind, out, texts)
        /\ out[Len(out)].done = TRUE
        /\ TextOf(rq.kind, out[Len(out)]) = <<>>

\* The upstream yielded "Hel", an empty delta and "lo" and ended.
C1_Witness ==
    /\ rq_pc = "closed"
    /\ up_end = "end"
    /\ up = <<ChunkText(<<"Hel">>), ChunkText(<<>>), ChunkText(<<"lo">>)>>
    /\ Len(out) = 3

\* C2: no record is emitted after a terminal record, and a stream the pump
\* has ended (upstream ended normally, failed mid-stream or failed before
\* its first element) holds exactly one done=true record, its last.
C2_OneTerminalLast ==
    /\ \A i \in 1..Len(out) : out[i].done => i = Len(out)
    /\ rq_pc = "closed" => Len(out) >= 1 /\ out[Len(out)].done = TRUE
    /\ out /= <<>> /\ out[Len(out)].done => rq_pc = "closed"

\* The upstream failed after the pump had forwarded a delta.
C2_Witness ==
    /\ rq_pc = "closed"
    /\ up_end = "fail"
    /\ Len(out) >= 2

\* C3: when the upstream failed after yielding k >= 0 elements (or its call
\* failed), the output is the records of the deltas forwarded before the
\* failure followed by one done=true record whose text is the error
\* description, and no exception left the pump.
C3_StreamFailure ==
    (rq_pc = "closed" /\ up_end \in {"fail", "callfail"}) =>
        LET fwd == Forwarded(rq.kind, up) IN
        /\ Len(out) = Len(fwd) + 1
        /\ CarriesInOrder(rq.kind, out, fwd)
        /\ out[Len(out)].done = TRUE
        /\ IsErrorText(TextOf(rq.kind, out[Len(out)]))
        /\ ~raised

\* The upstream failed after yielding one delta.
C3_Witness ==
    /\ rq_pc = "closed"
    /\ up_end = "fail"
    /\ up = <<ChunkText(<<"Hel">>)>>
    /\ Len(out) = 2

\* C4: a generate or chat request with the stream flag set and a resolved
\* model gets a 200 newline-delimited stream, whatever the upstream does:
\* no error status, no error-shaped JSON body, no exception to the transport.
C4_StreamAlwaysSuccessStatus ==
    (/\ rq.kind \in {"generate", "chat"}
     /\ rq.stream = Some(TRUE)
     /\ lite_config /= None) =>
        /\ resp.status = 200
        /\ resp.media = "application/x-ndjson"
        /\ "error" \notin DOMAIN resp.body
        /\ ~raised

\* The upstream call of such a request failed before its first element.
C4_Witness ==
    /\ rq.kind \in {"generate", "chat"}
    /\ rq.stream = Some(TRUE)
    /\ lite_config /= None
    /\ rq_pc = "closed"
    /\ up_end = "callfail"

\* C5: a generate, chat or show request whose model does not resolve gets a
\* 404 response with an error field, in buffered and streaming mode alike,
\* and makes no upstream call.
C5_NotFoundNoUpstream ==
    (rq.kind \in Endpoints /\ lite_config = None) =>
        /\ rq_pc = "responded"
        /\ resp.status = 404
        /\ "error" \in DOMAIN resp.body
        /\ calls = <<>>
        /\ out = <<>>

\* A streaming chat request named a model that is not configured.
C5_Witness ==
    /\ rq.kind = "chat"
    /\ rq.stream = Some(TRUE)
    /\ rq.model = "mx"
    /\ lite_config = None
    /\ rq_pc = "responded"

\* C6: a buffered generate or chat request to a resolved model whose
\* upstream call fails gets a 500 response with an error field and no
\* success record, and nothing is handed to the transport before it.
C6_BufferedFailure ==
    /\ rq_pc = "await" => resp = NoResponse /\ out = <<>>
    /\ (rq_pc = "responded" /\ lite_config /= None /\ up_end = "callfail") =>
        /\ resp.status = 500
        /\ resp.media = "application/json"
        /\ DOMAIN resp.body = {"error"}
        /\ out = <<>>

\* The upstream call of a buffered chat request failed.
C6_Witness ==
    /\ rq.kind = "chat"
    /\ rq.stream = Some(FALSE)
    /\ rq_pc = "responded"
    /\ up_end = "callfail"
    /\ calls /= <<>>

\* ------------------------------------------- requests during reloads
\* every record the request has produced so far, yielded or not
RecordsOfRequest ==
    [i \in 1..(Len(out) + Len(held)) |->
        IF i <= Len(out) THEN out[i] ELSE held[i - Len(out)]]

\* C11: the upstream call of a request is made with the entry the request
\* resolved when it arrived (provider tag, upstream model name, credentials,
\* base URL, static reasoning settings) and its records are those of the
\* name it resolved, whatever the reloads have made of the snapshot since.
C11_RequestKeepsItsEntry ==
    calls /= <<>> =>
        /\ lite_config /= None
        /\ LET entry == lite_config[1]
               call == calls[1]
           IN  /\ call.model = LitellmModel(entry)
               /\ call.api_key = entry.api_key
               /\ call.api_base = entry.base_url
               /\ call.options = apply_config_options(NoOptions, entry)
        /\ \A i \in DOMAIN RecordsOfRequest : RecordsOfRequest[i].model = rq.model
        /\ resp.status = 0 \/ resp.status = 200

\* A streaming request whose upstream call started after a reload had
\* changed or removed its model, and which has yielded a record since.
C11_Witness ==
    /\ calls /= <<>>
    /\ calls[1].stream
    /\ get_litellm_config(call_snap, rq.model) /= lite_config
    /\ get_litellm_config(providers, rq.model) /= lite_config
    /\ out /= <<>>

\* ------------------------------------------------------------ /api/tags
\* the model list of one snapshot: its names with their provider details
ModelListOf(tbl) ==
    [i \in 1..Len(tbl) |->
        to_ollama_model_list_item(tbl[i].name, tbl[i].cfg.provider, tbl[i].cfg.model_name)]

\* C12: the model list one /api/tags request returns is the model list of a
\* snapshot that was in force while the request ran (the snapshot before a
\* reload or the one after it), never a combination of two snapshots.
C12_TagsFromOneSnapshot ==
    tg_pc = "responded" => \E tbl \in tg_snaps : tg_items = ModelListOf(tbl)

\* ------------------------------------------------- ConfigManager._lock
\* C13: readers of the store never block each other: a thread that comes to
\* read while another reader is reading can go ahead and read too (only the
\* swap of the snapshot keeps others out).
C13_ReadersNeverBlockEachOther ==
    \A t \in Readers :
        (th[t].pc = "want" /\ lock \in Readers) => ENABLED Acquire(t)

\* ------------------------------------------------------------- watcher
\* C14: after a reload attempt of the watcher has failed on a malformed
\* file the watcher is still running (so that a later edit to valid content
\* gets loaded).
C14_WatcherSurvivesFailedReload ==
    (rl_pc = "idle" /\ rl_result \in {"warned", "raised"} /\ Malformed(Contents[rl_data]))
        => watcher = "running"

\* ------------------------------------------------- the upstream handle
\* C15: on every exit of the pump (the upstream ended, the upstream
\* failed, the consumer stopped draining before the terminal record) the
\* upstream stream the pump acquired has been released.
C15_HandleReleasedOnExit ==
    (rq_pc = "cancelled" \/ (rq_pc = "closed" /\ up_end \in {"end", "fail", "callfail"}))
        => handle /= "open"

\* ------------------------------------------------------ empty elements
\* an element with a delta that has no text and no tool-call fragment
IsEmptyElement(chunk) == chunk.delta /\ chunk.content = <<>> /\ chunk.tool_calls = None
IsNonEmptyElement(chunk) == chunk.content /= <<>> \/ chunk.tool_calls /= None
IsNonTerminal(record) == ~record.done

\* The elements are those the claim speaks of: each has its delta, and a
\* generate stream (whose request carries no tools) has no tool-call fragment.
PlainElements(kind, chunks) ==
    \A i \in 1..Len(chunks) :
        IF kind = "generate" THEN chunks[i].tool_calls = None ELSE chunks[i].delta

C17_ForwardsIncrementally ==
    /\ Len(held) <= 1
    /\ rq_pc = "iter" =>
          /\ Len(out) + Len(held) = Len(Forwarded(rq.kind, up))
          /\ held /= <<>> =>
                /\ up /= <<>>
                /\ TextOf(rq.kind, held[1]) = up[Len(up)].content

\* The record of the first element is with the consumer, that of the second
\* is built and held, and the upstream has not been asked for a third.
C17_Witness ==
    /\ rq_pc = "iter"
    /\ Len(up) = 2
    /\ Len(out) = 1
    /\ Len(held) = 1
    /\ TextOf(rq.kind, out[1]) = up[1].content
    /\ ~ENABLED PumpNext(ChunkText(<<"lo">>))

C19_TerminalAllZero ==
    \A i \in 1..Len(out) :
        out[i].done =>
            /\ out[i].prompt_eval_count = 0
            /\ out[i].eval_count = 0
            /\ out[i].total_duration = 0

\* C19 (amended): the terminal record of every streamed generate or chat
\* response carries zero for prompt_eval_count and eval_count; its
\* total_duration is zero when the stream ended on a failure and is the time
\* the pump measured from its start to the end of the upstream, in
\* nanoseconds, when the stream ended normally.
C19_TerminalZeroUsage ==
    \A i \in 1..Len(out) :
        out[i].done =>
            /\ out[i].prompt_eval_count = 0
            /\ out[i].eval_count = 0
            /\ up_end /= "end" => out[i].total_duration = 0
            /\ up_end = "end" =>
                  out[i].total_duration \in {ns_from_seconds(e) : e \in Elapsed}

\* A stream that took 1.5 s ended normally: its terminal record says so.
C19_Witness ==
    /\ rq_pc = "closed"
    /\ up_end = "end"
    /\ out[Len(out)].done
    /\ out[Len(out)].total_duration = 1500000000
    /\ out[Len(out)].eval_count = 0

\* ------------------------------------------------ streamed and buffered
\* the texts of a sequence of texts, one after the other
RECURSIVE Concat(_)
Concat(texts) == IF texts = <<>> THEN <<>> ELSE Head(texts) \o Concat(Tail(texts))

\* the text an upstream stream has delivered
UpstreamText(chunks) == Concat([i \in 1..Len(chunks) |-> chunks[i].content])

\* What the upstream returns for the same output when it is not asked to
\* stream: the whole text as message.content (None or "" when there is none).
SameOutputBuffered(chunks) ==
    { [content |-> c, tool_calls |-> None, usage |-> None] :
        c \in IF UpstreamText(chunks) = <<>>
              THEN {None, Some(<<>>)}
              ELSE {Some(UpstreamText(chunks))} }

StreamedText(kind, records) ==
    LET deltas == SelectSeq(records, IsNonTerminal)
    IN  Concat([i \in 1..Len(deltas) |-> TextOf(kind, deltas[i])])

\* C20: for the same upstream output, the texts of the non-terminal records
\* of the streamed response, concatenated in order, are the text of the
\* buffered response (generate: response; chat: message.content).
C20_StreamedTextIsBufferedText ==
    (rq_pc = "closed" /\ up_end = "end") =>
        \A response \in SameOutputBuffered(up), elapsed \in Elapsed :
            StreamedText(rq.kind, out)
                = TextOf(rq.kind, BufferedBody(rq.kind, rq.model, response, elapsed))

\* A chat stream of three texts, one of them in a delta that also has a
\* tool-call fragment, ended normally.
C20_Witness ==
    /\ rq.kind = "chat"
    /\ rq_pc = "closed"
    /\ up_end = "end"
    /\ up = <<ChunkText(<<"Hel">>), ChunkBoth, ChunkText(<<"lo">>)>>
    /\ StreamedText("chat", out) = <<"Hel", "!", "lo">>

\* ------------------------------------------------------- the usage log
\* C21: a buffered generate or chat request that completed successfully
\* has appended one entry to the usage log, with the provider, the model and
\* the upstream's input and output token counts (and a request that failed
\* has appended none).
C21_BufferedSuccessLogged ==
    /\ (rq.kind \in {"generate", "chat"} /\ rq_pc = "responded" /\ resp.status = 200) =>
          /\ usage_file /= <<>>
          /\ LET entry == usage_file[Len(usage_file)] IN
             /\ entry.provider = lite_config[1].provider
             /\ entry.model = lite_config[1].model_name
             /\ entry.input_tokens = resp.body.prompt_eval_count
             /\ entry.output_tokens = resp.body.eval_count
    /\ (rq_pc = "responded" /\ resp.status /= 200) => usage_file = log_hist

C23_UpstreamModelId ==
    calls /= <<>> =>
        /\ rq.kind \in {"generate", "chat"}
        /\ lite_config /= None
        /\ LET entry == lite_config[1]
               call == calls[1]
               tag == IF entry.provider = "custom_openai" THEN "openai" ELSE entry.provider
           IN  /\ call.model = <<tag, "/", entry.model_name>>
               /\ call.api_key = entry.api_key
               /\ call.api_base = entry.base_url
               /\ call.stream = StreamFlag(rq)

\* A streaming chat whose entry has the tag custom_openai has made its call.
C23_Witness ==
    /\ calls /= <<>>
    /\ rq.kind = "chat"
    /\ calls[1].stream
    /\ lite_config[1].provider = "custom_openai"
    /\ calls[1].model = <<"openai", "/", "llama3">>
    /\ calls[1].api_base /= None

\* The entry the request resolved has the reasoning setting, blank or not.
EntryGives(key) == lite_config /= None /\ lite_config[1][key] /= None
\* ... and the setting is neither "" nor 0.
EntrySets(key) ==
    /\ EntryGives(key)
    /\ IF key = "reasoning_effort" THEN lite_config[1][key][1] /= ""
                                   ELSE lite_config[1][key][1] /= 0
\* The options of the call carry the entry's setting.
CallCarries(key) ==
    IF key = "reasoning_effort"
    THEN /\ "reasoning_effort" \in DOMAIN calls[1].options
         /\ calls[1].options.reasoning_effort = lite_config[1].reasoning_effort[1]
    ELSE /\ "thinking" \in DOMAIN calls[1].options
         /\ calls[1].options.thinking =
                [type |-> "enabled", budget_tokens |-> lite_config[1].thinking_budget[1]]
CallKey(key) == IF key = "reasoning_effort" THEN "reasoning_effort" ELSE "thinking"
ReasoningSettings == {"reasoning_effort", "thinking_budget"}

\* C24 as stated: whenever the resolved entry specifies a reasoning-effort
\* (a thinking-budget), the options of the upstream call carry the entry's
\* value, whatever the request's options hold; the request cannot set
\* either field; an entry specifying both has both passed.
C24_EntrySettingsPassed ==
    calls /= <<>> =>
        \A key \in ReasoningSettings :
            /\ EntryGives(key) => CallCarries(key)
            /\ ~EntryGives(key) => CallKey(key) \notin DOMAIN calls[1].options

\* C24: whenever the resolved entry specifies a reasoning-effort other
\* than "" (a thinking-budget other than 0), the options of the upstream
\* call carry the entry's value, whatever the request's options hold; in
\* every other case the field is not passed, so the request cannot set or
\* override it; an entry specifying both has both passed.
C24_SetEntrySettingsPassed ==
    calls /= <<>> =>
        /\ \A key \in ReasoningSettings :
              /\ EntrySets(key) => CallCarries(key)
              /\ ~EntrySets(key) => CallKey(key) \notin DOMAIN calls[1].options
        /\ "thinking_budget" \notin DOMAIN calls[1].options

\* A call for an entry with both settings, made for a request whose options
\* name other reasoning settings.
C24_Witness ==
    /\ calls /= <<>>
    /\ "options" \in DOMAIN rq
    /\ rq.options /= JsonNull
    /\ "reasoning_effort" \in DOMAIN rq.options
    /\ rq.options.reasoning_effort = "low"
    /\ EntrySets("reasoning_effort") /\ EntrySets("thinking_budget")
    /\ calls[1].options.reasoning_effort = "medium"
    /\ calls[1].options.thinking.budget_tokens = 4096

\* The options object of the request under way ({} when it has none).
RequestOptions == Get(rq, "options", NoOptions)
\* Key `as` of the call's options is key `key` of the request's options.
CopiedAs(key, as) ==
    /\ key \in DOMAIN RequestOptions <=> as \in DOMAIN calls[1].options
    /\ key \in DOMAIN RequestOptions => calls[1].options[as] = RequestOptions[key]

\* C25: the options of the upstream call hold temperature, num_predict
\* (as max_tokens) and top_p of the request's options object, each with the
\* request's value and each exactly when the request has it, and hold no
\* other key of the options object.
C25_RecognizedOptionsCopied ==
    calls /= <<>> =>
        /\ CopiedAs("temperature", "temperature")
        /\ CopiedAs("num_predict", "max_tokens")
        /\ CopiedAs("top_p", "top_p")
        /\ \A key \in DOMAIN RequestOptions \ {"temperature", "num_predict", "top_p"} :
              key \in DOMAIN calls[1].options => calls[1].options[key] /= RequestOptions[key]
        /\ DOMAIN calls[1].options \subseteq
              {"temperature", "max_tokens", "top_p", "response_format", "tools",
               "reasoning_effort", "thinking"}

\* A call made for a request whose options hold a recognized key, an
\* unrecognized key and the upstream's name of the alias.
C25_Witness ==
    /\ calls /= <<>>
    /\ RequestOptions = [temperature |-> 1, seed |-> 42, max_tokens |-> 8]
    /\ calls[1].options.temperature = 1
    /\ DOMAIN calls[1].options \cap {"seed", "max_tokens", "num_predict"} = {}

\* C26: building the options never fails, whatever the body's options are
\* (absent, empty, null, unrecognized keys only): a request for a configured
\* model is not answered by the failure of its handler; and the options are
\* empty when the body supplies no recognized option, no format and no
\* tools and the entry has no reasoning setting.
C26_BuildingOptionsNeverFails ==
    /\ (rq.kind \in {"generate", "chat"} /\ lite_config /= None) => resp /= InternalServerError
    /\ ( /\ calls /= <<>>
         /\ DOMAIN RequestOptions \cap {"temperature", "num_predict", "top_p"} = {}
         /\ DOMAIN rq \cap {"format", "tools"} = {}
         /\ \A key \in ReasoningSettings : ~EntrySets(key) )
       => calls[1].options = NoOptions

BufferedAnswered ==
    /\ rq.kind \in {"generate", "chat"}
    /\ rq_pc = "responded"
    /\ resp.status = 200
    /\ "total_duration" \in DOMAIN resp.body

\* C27: the total_duration of every buffered response is the difference of
\* the two clock readings taken around the upstream call, converted to
\* nanoseconds, and is never negative, whatever the clock returned.
C27_BufferedDurationNonNegative ==
    BufferedAnswered =>
        /\ \E elapsed \in Elapsed : resp.body.total_duration = ns_from_seconds(elapsed)
        /\ resp.body.total_duration >= 0

\* C28: a buffered chat response to a completion with text t and usage
\* (i, o) has message.content = t, prompt_eval_count = i, eval_count = o and
\* done = TRUE; a buffered generate response has the same with t as its
\* response field.
C28_BufferedFieldMapping ==
    [][\A response \in Completions, elapsed \in Elapsed :
          (UpstreamReturn(response, elapsed) /\ response.content /= None
              /\ response.usage /= None) =>
             /\ resp'.status = 200
             /\ resp'.body.done = TRUE
             /\ resp'.body.prompt_eval_count = response.usage[1].prompt_tokens
             /\ resp'.body.eval_count = response.usage[1].completion_tokens
             /\ IF rq.kind = "chat"
                THEN /\ resp'.body.message.content = response.content[1]
                     /\ resp'.body.message.role = "assistant"
                ELSE resp'.body.response = response.content[1]]_vars

\* A buffered chat was answered from the completion "hello" with usage
\* (3, 1).
C28_Witness ==
    /\ BufferedAnswered
    /\ rq.kind = "chat"
    /\ resp.body.message.content = <<"hello">>
    /\ resp.body.prompt_eval_count = 3
    /\ resp.body.eval_count = 1
    /\ resp.body.done

\* C30: the usage log is append-only: once the calls of add_usage_log made
\* so far have returned, whether they ran one after the other or
\* interleaved, the stored log is the sequence of their entries, one per
\* call, none lost, overwritten or removed.
C30_LogAppendOnly ==
    (\A w \in LogWriters : lw[w].pc = "out") => usage_file = log_hist

\* The table has one entry at most for each name.
UniqueNames(tbl) == \A k, l \in 1..Len(tbl) : tbl[k].name = tbl[l].name => k = l
DupId == CHOOSE c \in ContentIds : Contents[c] = FileDup

\* C31: at every instant each external model name has one entry at most in
\* the snapshot, and in the table a reload has built, also when the file
\* defines the name under several providers; the list of names has no
\* name twice.
C31_OneEntryPerName ==
    /\ UniqueNames(providers)
    /\ UniqueNames(rl_new)
    /\ rd.op = "list" => \A k, l \in 1..Len(rd.list) : rd.list[k] = rd.list[l] => k = l
    /\ \A name \in ModelNames :
          Cardinality({k \in 1..Len(providers) : providers[k].name = name}) <= 1

\* The snapshot was loaded from the file that defines m1 under two
\* providers and holds m1 once.
C31_Witness ==
    /\ rl_pc = "idle"
    /\ rl_result = "reloaded"
    /\ rl_data = DupId
    /\ Cardinality(Definitions(Contents[DupId])) = 2
    /\ Cardinality({k \in 1..Len(providers) : providers[k].name = "m1"}) = 1

\* C36: a reload of a file that defines a name under several providers
\* ends without an error and keeps for the name the entry of the provider
\* that comes last in the file, with that provider's tag, credentials and
\* base URL.
C36_LastProviderWins ==
    (rl_pc = "idle" /\ rl_result = "reloaded" /\ rl_data /= 0) =>
        LET content == Contents[rl_data] IN
        \A d \in Definitions(content) :
            IsLastDefinition(content, d) =>
                LET r == get_litellm_config(providers, DefModel(content, d).name) IN
                /\ r /= None
                /\ Matches(r[1], content, d)
                /\ r[1].additional_params =
                      Get(content.members[d[1]].value, "additional_params", {})

\* The reload of the file defining m1 under openai and then under the
\* custom endpoint returned normally; m1 is the custom endpoint's llama3.
C36_Witness ==
    /\ rl_pc = "idle"
    /\ rl_result = "reloaded"
    /\ rl_data = DupId
    /\ watcher = "running"
    /\ get_litellm_config(providers, "m1") /= None
    /\ get_litellm_config(providers, "m1")[1].provider = "custom_openai"
    /\ get_litellm_config(providers, "m1")[1].model_name = "llama3"
    /\ get_litellm_config(providers, "m1")[1].api_key = None
    /\ get_litellm_config(providers, "m1")[1].base_url = Some("http://l")

\* C32: in a chat stream an upstream element without a delta is skipped
\* like any other empty element: it gives no record, so that there are as
\* many non-terminal records as non-empty elements, and it does not end the
\* stream, so that the pump has ended only if the upstream ended or failed
\* and no record of the stream reports an error while the upstream has not
\* failed.
C32_NoDeltaElementSkipped ==
    (rq.kind = "chat" /\ rq_pc \in {"iter", "final", "closed", "cancelled"}) =>
        /\ Len(SelectSeq(RecordsOfRequest, IsNonTerminal))
              = Len(SelectSeq(up, IsNonEmptyElement))
        /\ rq_pc \in {"final", "closed"} => up_end /= "open"
        /\ up_end \in {"open", "end"} =>
              \A i \in DOMAIN RecordsOfRequest :
                  TextOf("chat", RecordsOfRequest[i]) \in {c.content : c \in Chunks}

\* C33: in a chat stream an upstream element with an empty text delta and
\* a tool-call fragment gives exactly one record, not terminal (done FALSE,
\* no duration and no count), carrying the fragment and an empty text, and
\* the pump goes on iterating.
C33_ToolFragmentForwarded ==
    [][(rq.kind = "chat" /\ PumpNext(ChunkTool)) =>
          /\ Len(held') = 1
          /\ DOMAIN held'[1] = {"model", "message", "done"}
          /\ held'[1].done = FALSE
          /\ held'[1].message.content = <<>>
          /\ held'[1].message.tool_calls = ChunkTool.tool_calls[1]
          /\ held'[1].model = rq.model
          /\ rq_pc' = "iter"
          /\ raised' = FALSE]_vars

\* A chat stream forwarded the record of a tool-call fragment and then the
\* record of the text that came after it.
C33_Witness ==
    /\ rq.kind = "chat"
    /\ rq_pc = "iter"
    /\ up = <<ChunkTool, ChunkText(<<"lo">>)>>
    /\ Len(out) = 2
    /\ out[1].message.tool_calls = <<"call_1">>
    /\ out[1].message.content = <<>>
    /\ ~out[1].done

\* C35: when reload_providers calls of two threads run concurrently while
\* the file changes between their reads, then once both have returned (and
\* the watcher has no event left to handle) the snapshot is the table of
\* the content the file has: a call that read older content does not
\* replace the snapshot of a call that read newer content.
C35_ConcurrentReloadsEndAtLatest ==
    (rl_pc = "idle" /\ dc_pc = "idle" /\ pending = 0 /\ watcher = "running"
        /\ WellFormed(Contents[file])) =>
        providers = ParseAndBuild(Contents[file]).tbl

\* C37: a reload attempt that finds no providers file leaves the snapshot
\* as it was when the attempt began; listModels() and resolve(name) return
\* after it what they returned before, so that deleting the file clears
\* nothing.
C37_MissingFileKeepsSnapshot ==
    (rl_pc = "idle" /\ ~Contents[rl_data].exists) =>
        /\ providers = rl_pre
        /\ list_models(providers) = list_models(rl_pre)
        /\ \A name \in ModelNames :
              get_litellm_config(providers, name) = get_litellm_config(rl_pre, name)

\* The file was deleted while the snapshot held models, the watcher's
\* reload found no file and returned with its warning.
C37_Witness ==
    /\ rl_pc = "idle"
    /\ rl_result = "warned"
    /\ file = MissingId
    /\ rl_data = MissingId
    /\ list_models(providers) /= <<>>
    /\ get_litellm_config(providers, "m1") /= None

\* The keys an upstream call's options may have.
UpstreamOptionKeys ==
    {"temperature", "max_tokens", "top_p", "response_format", "tools",
     "reasoning_effort", "thinking"}

\* C38: the options of an upstream call have keys of UpstreamOptionKeys
\* only; response_format is there exactly when the request's format is
\* "json", tools exactly for a chat request with a non-empty tool list (and
\* are that list), and no additional parameter of the entry is among the
\* options or the other arguments of the call.
C38_OnlyKnownOptionKeys ==
    calls /= <<>> =>
        LET options == calls[1].options IN
        /\ DOMAIN options \subseteq UpstreamOptionKeys
        /\ "response_format" \in DOMAIN options
              <=> ("format" \in DOMAIN rq /\ rq.format = "json")
        /\ "response_format" \in DOMAIN options
              => options.response_format = [type |-> "json_object"]
        /\ "tools" \in DOMAIN options
              <=> (rq.kind = "chat" /\ "tools" \in DOMAIN rq /\ rq.tools /= <<>>)
        /\ "tools" \in DOMAIN options => options.tools = rq.tools
        /\ lite_config[1].additional_params \cap (DOMAIN options \cup DOMAIN calls[1]) = {}

\* A generate request with a tool list, format "json" and an entry with an
\* additional parameter has made its call: response_format alone was added.
C38_Witness ==
    /\ calls /= <<>>
    /\ rq.kind = "generate"
    /\ "tools" \in DOMAIN rq
    /\ "format" \in DOMAIN rq
    /\ lite_config[1].additional_params = {"timeout"}
    /\ "options" \notin DOMAIN rq
    /\ DOMAIN calls[1].options \ {"reasoning_effort", "thinking"} = {"response_format"}

\* The request under way is a generate or chat request for a configured
\* model, served by the pump / by the buffered path.
ServedStreaming ==
    /\ rq.kind \in {"generate", "chat"}
    /\ lite_config /= None
    /\ rq_pc \in {"pump_call", "iter", "final", "closed", "cancelled"}
ServedBuffered ==
    /\ rq.kind \in {"generate", "chat"}
    /\ lite_config /= None
    /\ rq_pc \in {"await", "responded"}

\* C40: a generate or chat request whose body has no stream field is
\* served in streaming mode, and the buffered path is taken only for a body
\* whose stream field is false.
C40_BufferedOnlyForFalse ==
    /\ (ServedStreaming \/ ServedBuffered) /\ rq.stream = None => ServedStreaming
    /\ ServedBuffered => rq.stream = Some(FALSE)

\* The names of the models of the table, and the table having no name
\* twice, in one provider or across providers.
StoredNames(tbl) ==
    UNION {{ModelsOf(tbl[i].value)[j].name : j \in 1..Len(ModelsOf(tbl[i].value))} :
           i \in 1..Len(tbl)}
NoNameTwice(tbl) ==
    \A i, k \in 1..Len(tbl) :
        \A j \in 1..Len(ModelsOf(tbl[i].value)), l \in 1..Len(ModelsOf(tbl[k].value)) :
            ModelsOf(tbl[i].value)[j].name = ModelsOf(tbl[k].value)[l].name
                => (i = k /\ j = l)

\* C34: the saves of the add-model form keep the model names unique: a
\* save that is carried out stores the model under a key no model of the
\* table had, a save that is rejected or fails leaves the table as it was,
\* and after every save no two models of the table, of one provider or of
\* two, have the same name.
C34_SavePathKeepsNamesUnique ==
    [][/\ sv'.result = "saved" =>
            /\ sv'.key[1] \notin StoredNames(ptable)
            /\ sv'.key[1] \in StoredNames(ptable')
            /\ ModelCount(ptable') = ModelCount(ptable) + 1
       /\ sv'.result \in {"rejected", "ValueError"} => ptable' = ptable
       /\ NoNameTwice(ptable')]_vars

\* The form saved "a" for p2 while p1 had the models "a" and "a (p2)": the
\* model went in as "a (p2)_2".
C34_Witness ==
    /\ sv.op = "_save_model"
    /\ sv.result = "saved"
    /\ sv.key = Some(<<"a", " (", "p2", ")", "_", "2">>)
    /\ ModelCount(ptable) = 3
    /\ <<"a">> \in StoredNames(ptable)

\* C39: Storage.save_model updates or appends.  For a provider the table
\* has, the provider's model list afterwards holds the config in the place
\* of the model of its name if there was one, else at its end, with every
\* other model, every other key of the provider and every other provider
\* as before; for a provider the table has not, ValueError is raised and
\* the table is as before.
C39_SaveModelUpdatesOrAppends ==
    [][\A provider_name \in ProviderNames, name \in NameInputs,
          model_name \in ActualModelNames :
          LET config == ModelConfig(name, model_name) IN
          SaveModel(provider_name, config) =>
             IF HasProvider(ptable, provider_name)
             THEN /\ sv'.result = "saved"
                  /\ Len(ptable') = Len(ptable)
                  /\ \A i \in 1..Len(ptable) :
                        /\ ptable'[i].id = ptable[i].id
                        /\ ptable[i].id /= provider_name => ptable'[i] = ptable[i]
                        /\ ptable[i].id = provider_name =>
                              LET old == ModelsOf(ptable[i].value)
                                  new == ModelsOf(ptable'[i].value)
                              IN  /\ DOMAIN ptable'[i].value
                                        = DOMAIN ptable[i].value \cup {"models"}
                                  /\ \A key \in DOMAIN ptable[i].value \ {"models"} :
                                        ptable'[i].value[key] = ptable[i].value[key]
                                  /\ IF \E j \in 1..Len(old) : old[j].name = name
                                     THEN /\ Len(new) = Len(old)
                                          /\ \A j \in 1..Len(old) :
                                                new[j] = IF old[j].name = name
                                                         THEN config ELSE old[j]
                                     ELSE new = Append(old, config)
             ELSE /\ sv'.result = "ValueError"
                  /\ ptable' = ptable]_vars

\* The first of the two models of p1 was saved again with another upstream
\* model name and is still the first.
C39_Witness ==
    /\ sv.op = "save_model"
    /\ sv.result = "saved"
    /\ sv.key = Some(<<"a">>)
    /\ Len(ModelsOf(ptable[1].value)) = 2
    /\ ModelsOf(ptable[1].value)[1] = ModelConfig(<<"a">>, "llama3")
    /\ ModelsOf(ptable[1].value)[2].name = <<"b">>
    /\ ModelsOf(ptable[2].value) = <<>>

====
